---- MODULE Spec2Model ----
(***************************************************************************)
(* kd: a command-line dictionary.  This module models the tiered lookup    *)
(* (application/query.rs), the SQLite-backed store with its zstd/JSON      *)
(* codec (infrastructure/storage/db.rs), the Youdao client                 *)
(* (infrastructure/network/client.rs) and the legacy migration             *)
(* (application/update.rs).                                                *)
(*                                                                         *)
(* Option<T> is a sequence of length 0 (None) or 1 (Some).  Result<T,E> is *)
(* a record [ok, val] or [ok, err].                                        *)
(***************************************************************************)
EXTENDS Integers, Sequences, FiniteSets, TLC

VARIABLES
    cache,      \* AppState.cache: DashMap<String, QueryResult>
    store,      \* the rows of table `cache` in kd.db, by primary key `query`
    config,     \* AppState.config (the youdao credentials)
    now,        \* the wall clock read by chrono::Utc::now().timestamp()
    task,       \* the query_word calls in flight, one record per caller
    mig,        \* the migrate_data call of update_dict
    schema,     \* the schema objects of kd.db (the table and its index)
    call,       \* the calls on the Database API, one record per client
    conn,       \* the thread of the tokio_rusqlite Connection and its inbox
    lock,       \* the holders of a read guard of the RwLock AppState.config
    history,    \* QUERY_HISTORY: VecDeque<Instant>, the instants in seconds
    dir         \* the files of the data directory (the parent of kd.db)

vars == <<cache, store, config, now, task, mig, schema, call, conn, lock, history, dir>>

\* ---------------------------------------------------------------- bounds

\* The clock runs from 0 to MaxClock.
MaxClock == 1

\* ---------------------------------------------------------------- values

None == << >>

Some(x) == <<x>>

Ok(v) == [ok |-> TRUE, val |-> v]

Err(e) == [ok |-> FALSE, err |-> e]

\* The query strings the callers use (cli.query joined by spaces).
Queries == {"cat", "dog"}

\* The command lines: `kd [-n] cat` and `kd -t [-n] dog`.
LookupArgs ==
    {[query |-> "cat", no_cache |-> nc, is_long_text |-> FALSE] : nc \in BOOLEAN}
    \cup {[query |-> "dog", no_cache |-> nc, is_long_text |-> TRUE] : nc \in BOOLEAN}

\* The callers of query_word.
Tasks == {1}

\* domain/model.rs: enum QuerySource and enum OnlineSource.
OfflineDb == [kind |-> "OfflineDb"]

LocalCache == [kind |-> "LocalCache"]

Online(provider) == [kind |-> "Online", provider |-> provider]

IsOnline(source) == source.kind = "Online"

\* QueryResult::new
QueryResultNew(query, is_long_text) ==
    [query            |-> query,
     found            |-> FALSE,
     is_long_text     |-> is_long_text,
     pronunciation    |-> None,
     pronunciation_us |-> None,
     pronunciation_uk |-> None,
     translations     |-> << >>,
     examples         |-> << >>,
     collins_items    |-> << >>,
     collins_rank     |-> None,
     source           |-> Online("Youdao"),
     cached_at        |-> None]

\* ---------------------------------------------------------------- codec

\* serde_json values.
JNull == [j |-> "null"]

JBool(b) == [j |-> "bool", b |-> b]

JNum(n) == [j |-> "number", n |-> n]

JStr(s) == [j |-> "string", s |-> s]

JArr(a) == [j |-> "array", a |-> a]

JObj(o) == [j |-> "object", o |-> o]

JOptStr(o) == IF o = None THEN JNull ELSE JStr(o[1])

JOptNum_Null(o) == JNull

JOptNum(o) == IF o = None THEN JNull ELSE JNum(o[1])

JStrs(s) == JArr([i \in DOMAIN s |-> JStr(s[i])])

\* Vec<(String, String)>: each tuple is a two-element array.
JPairs(ps) == JArr([i \in DOMAIN ps |-> JArr(<<JStr(ps[i][1]), JStr(ps[i][2])>>)])

\* #[derive(Serialize)] for QuerySource: a unit variant is its name, a
\* newtype variant is a one-key object.
JSource(source) ==
    IF IsOnline(source) THEN JObj([Online |-> JStr(source.provider)])
    ELSE JStr(source.kind)

JCollinsItem(item) ==
    JObj([additional  |-> JOptStr(item.additional),
          major_trans |-> JOptStr(item.major_trans),
          examples    |-> JPairs(item.examples)])

\* serde_json::to_vec(&QueryResult)
ToJson(r) ==
    JObj([query            |-> JStr(r.query),
          found            |-> JBool(r.found),
          is_long_text     |-> JBool(r.is_long_text),
          pronunciation    |-> JOptStr(r.pronunciation),
          pronunciation_us |-> JOptStr(r.pronunciation_us),
          pronunciation_uk |-> JOptStr(r.pronunciation_uk),
          translations     |-> JStrs(r.translations),
          examples         |-> JPairs(r.examples),
          collins_items    |-> JArr([i \in DOMAIN r.collins_items |->
                                        JCollinsItem(r.collins_items[i])]),
          collins_rank     |-> JOptStr(r.collins_rank),
          source           |-> JSource(r.source),
          cached_at        |-> JOptNum(r.cached_at)])

UnOptStr(v) == IF v.j = "null" THEN None ELSE Some(v.s)

UnOptNum(v) == IF v.j = "null" THEN None ELSE Some(v.n)

UnStrs(v) == [i \in DOMAIN v.a |-> v.a[i].s]

UnPairs(v) == [i \in DOMAIN v.a |-> <<v.a[i].a[1].s, v.a[i].a[2].s>>]

UnSource(v) ==
    IF v.j = "object" THEN Online(v.o.Online.s)
    ELSE IF v.s = "OfflineDb" THEN OfflineDb
    ELSE LocalCache

UnCollinsItem(v) ==
    [additional  |-> UnOptStr(v.o.additional),
     major_trans |-> UnOptStr(v.o.major_trans),
     examples    |-> UnPairs(v.o.examples)]

ResultKeys ==
    {"query", "found", "is_long_text", "pronunciation", "pronunciation_us",
     "pronunciation_uk", "translations", "examples", "collins_items",
     "collins_rank", "source", "cached_at"}

\* serde_json::from_slice::<QueryResult>: every field of the struct is
\* required; anything that is not such an object is an error.
FromJson(v) ==
    IF v.j = "object" /\ DOMAIN v.o = ResultKeys
    THEN Ok([query            |-> v.o.query.s,
             found            |-> v.o.found.b,
             is_long_text     |-> v.o.is_long_text.b,
             pronunciation    |-> UnOptStr(v.o.pronunciation),
             pronunciation_us |-> UnOptStr(v.o.pronunciation_us),
             pronunciation_uk |-> UnOptStr(v.o.pronunciation_uk),
             translations     |-> UnStrs(v.o.translations),
             examples         |-> UnPairs(v.o.examples),
             collins_items    |-> [i \in DOMAIN v.o.collins_items.a |->
                                      UnCollinsItem(v.o.collins_items.a[i])],
             collins_rank     |-> UnOptStr(v.o.collins_rank),
             source           |-> UnSource(v.o.source),
             cached_at        |-> UnOptNum(v.o.cached_at)])
    ELSE Err("Json")

\* zstd::stream::encode_all(.., 0): a zstd frame around the bytes.
ZstdEncode(bytes) == [frame |-> "zstd", content |-> bytes]

\* zstd::stream::decode_all: fails on anything that is not a zstd frame.
ZstdDecode(blob) ==
    IF blob.frame = "zstd" THEN Ok(blob.content) ELSE Err("Io")

\* ---------------------------------------------------------------- store

\* A row of table `cache` (init_database).  compressed_size and
\* original_size are the lengths of `data` and of its content and carry no
\* information of their own; they are left out.
Row(data, created_at, updated_at) ==
    [data |-> data, created_at |-> created_at, updated_at |-> updated_at]

EmptyStore == [q \in Queries |-> None]

EmptyCache == [q \in Queries |-> None]

\* The table and the index that init_database creates.
SchemaObjects == {"cache", "idx_cache_updated"}

\* The file kd.db: its schema objects and the rows of table `cache`.
Db(objects, rows) == [schema |-> objects, rows |-> rows]

init_database_Recreate(db, fault) ==
    IF fault = "io" THEN [res |-> Err("Database"), db |-> db]
    ELSE [res |-> Ok(None), db |-> Db(SchemaObjects, EmptyStore)]

\* init_database: CREATE TABLE IF NOT EXISTS, CREATE INDEX IF NOT EXISTS.
\* The Result in `res`, the file in `db`.
init_database(db, fault) ==
    IF fault = "io" THEN [res |-> Err("Database"), db |-> db]
    ELSE [res |-> Ok(None),
          db  |-> Db(db.schema \cup SchemaObjects,
                     IF "cache" \in db.schema THEN db.rows ELSE EmptyStore)]

\* The clients of the Database API: the lookups, with their write-through,
\* and the migration.
Clients == {"lookup", "migrate"}

\* A client that has made no call.
NoCall == [op |-> "none"]

NoCalls == [c \in Clients |-> NoCall]

\* The Connection with nothing sent to it and nothing running.
IdleConn == [inbox |-> << >>, running |-> << >>]

\* What the environment does to one store call: nothing, or the call fails
\* inside SQLite / the connection thread.
ReadFaults == {"none", "io"}

\* A write can also fail before the call, in serde_json or zstd.
WriteFaults == {"none", "encode", "io"}

\* The closure given to row.get / query_row: decompress, then parse.
DecodeRow(row) ==
    LET z == ZstdDecode(row.data)
    IN  IF ~z.ok THEN Err("Database")
        ELSE IF ~FromJson(z.val).ok THEN Err("Database")
        ELSE FromJson(z.val)

query_cache_impl_CorruptIsMiss(db, query, fault) ==
    IF fault = "io" THEN Err("Database")
    ELSE IF db[query] = None THEN Ok(None)
    ELSE LET d == DecodeRow(db[query][1])
         IN  IF d.ok THEN Ok(Some(d.val)) ELSE Ok(None)

\* query_cache_impl: Result<Option<QueryResult>, KdError>
query_cache_impl(db, query, fault) ==
    IF fault = "io" THEN Err("Database")
    ELSE IF db[query] = None THEN Ok(None)
    ELSE LET d == DecodeRow(db[query][1])
         IN  IF d.ok THEN Ok(Some(d.val)) ELSE d

insert_cache_impl_Lost(db, query, result, t, fault) ==
    IF fault = "encode" THEN [res |-> Err("Json"), db |-> db]
    ELSE IF fault = "io" THEN [res |-> Err("Database"), db |-> db]
    ELSE [res |-> Ok(None), db |-> db]

insert_cache_impl_IgnoreExisting(db, query, result, t, fault) ==
    IF fault = "encode" THEN [res |-> Err("Json"), db |-> db]
    ELSE IF fault = "io" THEN [res |-> Err("Database"), db |-> db]
    ELSE IF db[query] # None THEN [res |-> Ok(None), db |-> db]
    ELSE [res |-> Ok(None),
          db  |-> [db EXCEPT ![query] = Some(Row(ZstdEncode(ToJson(result)), t, t))]]

insert_cache_impl_FailExisting(db, query, result, t, fault) ==
    IF fault = "encode" THEN [res |-> Err("Json"), db |-> db]
    ELSE IF fault = "io" \/ db[query] # None THEN [res |-> Err("Database"), db |-> db]
    ELSE [res |-> Ok(None),
          db  |-> [db EXCEPT ![query] = Some(Row(ZstdEncode(ToJson(result)), t, t))]]

insert_cache_impl_KeepCreated(db, query, result, t, fault) ==
    IF fault = "encode" THEN [res |-> Err("Json"), db |-> db]
    ELSE IF fault = "io" THEN [res |-> Err("Database"), db |-> db]
    ELSE [res |-> Ok(None),
          db  |-> [db EXCEPT ![query] =
                      Some(Row(ZstdEncode(ToJson(result)),
                               IF db[query] = None THEN t ELSE db[query][1].created_at,
                               t))]]

\* insert_cache_impl: the Result<(), KdError> in `res`, the table in `db`.
insert_cache_impl(db, query, result, t, fault) ==
    IF fault = "encode" THEN [res |-> Err("Json"), db |-> db]
    ELSE IF fault = "io" THEN [res |-> Err("Database"), db |-> db]
    ELSE [res |-> Ok(None),
          db  |-> [db EXCEPT ![query] = Some(Row(ZstdEncode(ToJson(result)), t, t))]]

\* ---------------------------------------------------------------- remote

\* Config.youdao: api_id and api_key are Option<String>.
Configs ==
    {[api_id |-> Some("id"), api_key |-> Some("key")],
     [api_id |-> None,       api_key |-> Some("key")],
     [api_id |-> Some("id"), api_key |-> Some("")]}

\* struct YoudaoResponse
Response(translations, basic, web, error_code) ==
    [translations |-> translations, basic |-> basic,
     web_translations |-> web, error_code |-> error_code]

\* What openapi.youdao.com may answer: an API error, an empty answer, the
\* translation only, and a full answer with phonetic, explains and web.
Responses ==
    {Response(None, None, None, "108"),
     Response(None, None, None, "0"),
     Response(Some(<<"n. mao">>), None, None, "0"),
     Response(Some(<<"mao">>),
              Some([pronunciation |-> Some("kaet"), explains |-> Some(<<"n. mao">>)]),
              Some(<<[key |-> "cat", value |-> <<"mao", "mi">>]>>), "0")}

\* One call of the provider: the request fails, or a response arrives.
RemoteOutcomes ==
    {[kind |-> "http_error"]} \cup {[kind |-> "response", body |-> r] : r \in Responses}

RECURSIVE Join(_, _)
\* [String]::join(sep)
Join(strs, sep) ==
    IF Len(strs) = 0 THEN ""
    ELSE IF Len(strs) = 1 THEN strs[1]
    ELSE strs[1] \o sep \o Join(Tail(strs), sep)

UnwrapOr(o, d) == IF o = None THEN d ELSE o[1]

\* query_youdao_impl, from the parsed response on.
YoudaoResult(query, response) ==
    LET r0 == QueryResultNew(query, FALSE)
        r1 == [r0 EXCEPT !.source = Online("Youdao")]
        r2 == IF response.translations # None
              THEN [r1 EXCEPT !.translations = response.translations[1]] ELSE r1
        r3 == IF response.basic # None
              THEN LET basic == response.basic[1]
                       p == [r2 EXCEPT !.pronunciation = basic.pronunciation]
                   IN  IF basic.explains # None
                       THEN [p EXCEPT !.translations = @ \o basic.explains[1]]
                       ELSE p
              ELSE r2
        r4 == IF response.web_translations # None
              THEN LET web == response.web_translations[1]
                   IN  [r3 EXCEPT !.examples =
                           [i \in DOMAIN web |-> <<web[i].key, Join(web[i].value, "; ")>>]]
              ELSE r3
    IN  IF r4.translations # << >> \/ r4.pronunciation # None \/ r4.examples # << >>
        THEN [r4 EXCEPT !.found = TRUE]
        ELSE r4

\* client.rs 131-152: the text for an errorCode.
ErrorMsg(error_code) ==
    CASE error_code = "101" -> "Missing required parameter"
      [] error_code = "102" -> "Unsupported language type"
      [] error_code = "103" -> "Text too long"
      [] error_code = "104" -> "Unsupported API type"
      [] error_code = "105" -> "Unsupported signature type"
      [] error_code = "106" -> "Unsupported response type"
      [] error_code = "107" -> "Unsupported transmission encryption type"
      [] error_code = "108" -> "Invalid appKey or signature error (check api_key)"
      [] error_code = "109" -> "Invalid batchLog format"
      [] error_code = "110" -> "No related service"
      [] error_code = "111" -> "Developer account is abnormal"
      [] error_code = "201" -> "Decryption failed, check api_key"
      [] error_code = "202" -> "Missing signature"
      [] error_code = "203" -> "Signature verification failed"
      [] error_code = "301" -> "Dictionary query failed"
      [] error_code = "302" -> "Translation query failed"
      [] error_code = "303" -> "Server-side exception"
      [] error_code = "401" -> "Account balance insufficient"
      [] error_code = "411" -> "Access frequency limited"
      [] OTHER -> "Unknown error"

\* query_youdao_impl: Result<QueryResult, KdError>
query_youdao_impl(cfg, query, outcome) ==
    LET api_id  == UnwrapOr(cfg.api_id, "")
        api_key == UnwrapOr(cfg.api_key, "")
    IN  IF api_id = "" THEN Err("Config: Youdao API ID not configured")
        ELSE IF api_key = "" THEN Err("Config: Youdao API Key not configured")
        ELSE IF outcome.kind = "http_error" THEN Err("Http")
        ELSE IF outcome.body.error_code # "0"
             THEN Err("Api: Youdao API Error " \o outcome.body.error_code
                          \o ": " \o ErrorMsg(outcome.body.error_code))
        ELSE Ok(YoudaoResult(query, outcome.body))

\* ---------------------------------------------------------------- lookup

\* No migration running.  `pend` lists the positions in `rows` of the items
\* of `batch`; `sent` lists the calls of batch_insert_cache made so far, each
\* with its table, the positions of the rows it carried and what it returned.
\* `inflight` is the batch of a call that has not returned yet, and `base`
\* the table when that call was made, or when the last call returned.
\* `source_db_path` is the file update_dict found and called migrate_data on.
IdleMig ==
    [pc |-> "idle", src |-> None, ti |-> 0, rows |-> << >>, i |-> 0,
     count |-> 0, error_count |-> 0, batch |-> << >>, ret |-> None,
     report |-> << >>, pend |-> << >>, sent |-> << >>,
     inflight |-> None, base |-> EmptyStore, source_db_path |-> None]

MigRunning == mig.pc \notin {"idle", "done"}

\* A caller that is not inside query_word.  `trace` lists the tier accesses
\* of the current call in order, `remote` is what the provider call returned,
\* cache0/store0 are the tiers when the call began, and `prev` tells how the
\* caller's previous call in this process went.
NoPrev == [query |-> "", served |-> "-", fresh |-> FALSE]

IdleTask ==
    [pc |-> "idle", query |-> "", no_cache |-> FALSE, is_long_text |-> FALSE,
     result |-> None, remote |-> None, ret |-> None, trace |-> << >>,
     cache0 |-> EmptyCache, store0 |-> EmptyStore, prev |-> NoPrev]

\* The tier that answered a finished call that had no_cache = false and
\* returned a found record, "absent" when the provider answered it with
\* found = false; "-" for every other call.
Served(tk) ==
    IF tk.no_cache \/ ~tk.ret[1].ok THEN "-"
    ELSE IF ~tk.ret[1].val.found
         THEN (IF tk.remote # None THEN "absent" ELSE "-")
    ELSE IF tk.trace = <<"cache.get">> THEN "cache"
    ELSE IF tk.trace = <<"cache.get", "db.query", "cache.insert">> THEN "store"
    ELSE "remote"

\* What the next call remembers of a finished one.
Summary(tk) ==
    IF Served(tk) = "-" THEN NoPrev
    ELSE [query |-> tk.query, served |-> Served(tk),
          fresh |-> (tk.cache0 = EmptyCache /\ tk.store0 = EmptyStore)]

InFlight(t) == task[t].pc \notin {"idle", "done"}

\* `return x` / `?` of query_word: the call ends with ret.
Return(tk, ret) ==
    [tk EXCEPT !.pc = "done", !.ret = Some(ret), !.result = None]

CacheHit_Unlabelled(cached) == cached

\* query.rs 17-18.  The answer to a hit in the memory cache.
CacheHit(cached) == [cached EXCEPT !.source = LocalCache]

DbHit_AlwaysOffline(cached) == [cached EXCEPT !.source = OfflineDb]

\* query.rs 29-35.  The answer to a hit in the database.
DbHit(cached) ==
    IF IsOnline(cached.source) THEN cached ELSE [cached EXCEPT !.source = OfflineDb]

AfterCache_IgnoreHit(tk, cached) ==
    IF tk.no_cache THEN [tk EXCEPT !.pc = "online"]
    ELSE [tk EXCEPT !.pc = "db_read", !.trace = <<"cache.get">>]

\* query.rs 14-24.  The call after the memory cache stage; cached is
\* state.cache.get(query), looked at only when no_cache is false.
AfterCache(tk, cached) ==
    IF tk.no_cache THEN [tk EXCEPT !.pc = "online"]
    ELSE IF cached # None
         THEN Return([tk EXCEPT !.trace = <<"cache.get">>], Ok(CacheHit(cached[1])))
         ELSE [tk EXCEPT !.pc = "db_read", !.trace = <<"cache.get">>]

\* query_word up to its first await: the memory cache.
Begin(t, query, no_cache, is_long_text) ==
    /\ ~InFlight(t)
    /\ LET tk == [IdleTask EXCEPT
                    !.query = query, !.no_cache = no_cache,
                    !.is_long_text = is_long_text,
                    !.cache0 = cache, !.store0 = store,
                    !.prev = IF task[t].pc = "done" THEN Summary(task[t]) ELSE NoPrev]
       IN  task' = [task EXCEPT ![t] = AfterCache(tk, cache[query])]
    /\ mig' = IF mig.pc = "done" THEN IdleMig ELSE mig
    /\ UNCHANGED <<cache, store, config, now, schema, call, conn, lock, history, dir>>

PopulateCache_Skip(c, query, cached) == c

PopulateCache_Relabelled(c, query, cached) ==
    [c EXCEPT ![query] = Some([cached EXCEPT !.source = LocalCache])]

\* query.rs 27.  state.cache.insert(query, cached.clone())
PopulateCache(c, query, cached) == [c EXCEPT ![query] = Some(cached)]

\* query.rs 23-38: query_cache(..).await? and what follows it.
DbRead(t, fault) ==
    /\ task[t].pc = "db_read"
    /\ LET tk == [task[t] EXCEPT !.trace = Append(@, "db.query")]
           r  == query_cache_impl(store, tk.query, fault)
       IN  IF ~r.ok
           THEN /\ task' = [task EXCEPT ![t] = Return(tk, r)]
                /\ cache' = cache
           ELSE IF r.val # None
           THEN /\ cache' = PopulateCache(cache, tk.query, r.val[1])
                /\ task' = [task EXCEPT ![t] =
                      Return([tk EXCEPT !.trace = Append(@, "cache.insert")],
                             Ok(DbHit(r.val[1])))]
           ELSE /\ task' = [task EXCEPT ![t] = [tk EXCEPT !.pc = "online"]]
                /\ cache' = cache
    /\ UNCHANGED <<store, config, now, mig, schema, call, conn, lock, history, dir>>

DropGuard_Keep(l, holder) == l

\* query.rs 45 and update.rs 68: the read guard `config` goes out of scope,
\* resp. drop(config_guard).
DropGuard(l, holder) == l \ {holder}

OnProviderError_Retry(tk, r) == [tk EXCEPT !.pc = "online"]

\* query.rs 44.  query_youdao(..).await? on an Err.
OnProviderError(tk, r) == Return(tk, r)

ShouldCache_IgnoreNoCache(no_cache, result) == result.found

ShouldCache_IgnoreFound(no_cache, result) == ~no_cache

\* query.rs 54.  if !no_cache && result.found
ShouldCache(no_cache, result) == ~no_cache /\ result.found

\* query.rs 40-58: the provider call returns under the config read lock,
\* the guard is dropped, then the write-back to the memory cache, up to
\* insert_cache(..).await.
OnlineQuery(t, outcome) ==
    /\ task[t].pc = "online"
    /\ lock' = DropGuard(lock, t)
    /\ LET r  == query_youdao_impl(config, task[t].query, outcome)
           tk == [task[t] EXCEPT !.trace = Append(@, "remote"), !.remote = Some(r)]
       IN  IF ~r.ok
           THEN /\ task' = [task EXCEPT ![t] = OnProviderError(tk, r)]
                /\ cache' = cache
           ELSE LET result == IF tk.is_long_text
                              THEN [r.val EXCEPT !.is_long_text = TRUE] ELSE r.val
                IN  IF ShouldCache(tk.no_cache, result)
                    THEN LET stamped == [result EXCEPT !.cached_at = Some(now)]
                         IN  /\ cache' = [cache EXCEPT ![tk.query] = Some(stamped)]
                             /\ task' = [task EXCEPT ![t] =
                                   [tk EXCEPT !.pc = "db_write",
                                              !.result = Some(stamped),
                                              !.trace = Append(@, "cache.insert")]]
                    ELSE /\ task' = [task EXCEPT ![t] = Return(tk, Ok(result))]
                         /\ cache' = cache
    /\ UNCHANGED <<store, config, now, mig, schema, call, conn, history, dir>>

WriteBack_Swallow(res, result) == Ok(result)

\* query.rs 65-68.  insert_cache(..).await?; Ok(result)
WriteBack(res, result) == IF res.ok THEN Ok(result) ELSE res

\* query.rs 60-68: insert_cache(..).await? and Ok(result).
DbWrite(t, fault) ==
    /\ task[t].pc = "db_write"
    /\ LET tk == [task[t] EXCEPT !.trace = Append(@, "db.insert")]
           w  == insert_cache_impl(store, tk.query, tk.result[1], now, fault)
       IN  /\ store' = w.db
           /\ task' = [task EXCEPT ![t] = Return(tk, WriteBack(w.res, tk.result[1]))]
    /\ UNCHANGED <<cache, config, now, mig, schema, call, conn, lock, history, dir>>

\* ---------------------------------------------------------------- batch

\* What the environment does to one batch_insert_cache call: `enc` and
\* `exec` are the positions (in the batch, resp. in the prepared items)
\* whose encoding resp. INSERT fails, `tx` is "ok", or the step of the
\* transaction that fails ("begin", "commit").
NoBatchFault == [enc |-> {}, exec |-> {}, tx |-> "ok"]

BatchFaults ==
    {NoBatchFault,
     [enc |-> {1}, exec |-> {},  tx |-> "ok"],
     [enc |-> {},  exec |-> {1}, tx |-> "ok"],
     [enc |-> {},  exec |-> {2}, tx |-> "ok"],
     [enc |-> {},  exec |-> {},  tx |-> "begin"],
     [enc |-> {},  exec |-> {},  tx |-> "commit"]}

Keep_AbortOnBad(s, bad, i) ==
    IF bad \cap (1 .. Len(s)) # {} THEN << >> ELSE s

\* The items of s at the positions from i on that are not in bad, in order.
Keep(s, bad, i) ==
    LET kept == SelectSeq([k \in 1 .. Len(s) |-> k], LAMBDA k : k >= i /\ k \notin bad)
    IN  [j \in DOMAIN kept |-> s[kept[j]]]

ExecuteAll_FirstWins(acc, prepared, t, bad, i) ==
    LET done == {k \in i .. Len(prepared) : k \notin bad}
        first(q) == CHOOSE k \in done :
                       /\ prepared[k].query = q
                       /\ \A n \in done : prepared[n].query = q => n >= k
    IN  [db    |-> [q \in DOMAIN acc.db |->
                      IF \E k \in done : prepared[k].query = q
                      THEN Some(Row(prepared[first(q)].data, t, t))
                      ELSE acc.db[q]],
         count |-> acc.count + Cardinality(done)]

\* The loop of the transaction: INSERT OR REPLACE of every prepared item
\* whose execute succeeds; `db` is the table and `count` the successes.
\* Each key ends with the row of the last item that was executed for it.
ExecuteAll(acc, prepared, t, bad, i) ==
    LET done == {k \in i .. Len(prepared) : k \notin bad}
        last(q) == CHOOSE k \in done :
                      /\ prepared[k].query = q
                      /\ \A n \in done : prepared[n].query = q => n <= k
    IN  [db    |-> [q \in DOMAIN acc.db |->
                      IF \E k \in done : prepared[k].query = q
                      THEN Some(Row(prepared[last(q)].data, t, t))
                      ELSE acc.db[q]],
         count |-> acc.count + Cardinality(done)]

batch_insert_cache_impl_NoRollback(db, items, t, fault) ==
    LET encoded  == [i \in DOMAIN items |->
                        [query |-> items[i].query,
                         data  |-> ZstdEncode(ToJson(items[i].result))]]
        prepared == Keep(encoded, fault.enc, 1)
        done     == ExecuteAll([db |-> db, count |-> 0], prepared, t, fault.exec, 1)
    IN  IF prepared = << >> THEN [res |-> Ok(0), db |-> db]
        ELSE IF fault.tx = "begin" THEN [res |-> Err("Database"), db |-> db]
        ELSE IF fault.tx = "commit" THEN [res |-> Err("Database"), db |-> done.db]
        ELSE [res |-> Ok(done.count), db |-> done.db]

\* batch_insert_cache_impl: the Result<usize, KdError> in `res`, the table
\* in `db`.  items is a sequence of [query, result].
batch_insert_cache_impl(db, items, t, fault) ==
    LET encoded  == [i \in DOMAIN items |->
                        [query |-> items[i].query,
                         data  |-> ZstdEncode(ToJson(items[i].result))]]
        prepared == Keep(encoded, fault.enc, 1)
        done     == ExecuteAll([db |-> db, count |-> 0], prepared, t, fault.exec, 1)
    IN  IF prepared = << >> THEN [res |-> Ok(0), db |-> db]
        ELSE IF fault.tx # "ok" THEN [res |-> Err("Database"), db |-> db]
        ELSE [res |-> Ok(done.count), db |-> done.db]

\* ---------------------------------------------------------------- legacy

\* migration/legacy.rs: struct LegacyResult (CollinsData without the unused
\* star and pat).  The HashMaps are functions on their key sets.
Legacy(keyword, pronounce, paraphrase, examples, collins) ==
    [keyword |-> keyword, pronounce |-> pronounce, paraphrase |-> paraphrase,
     examples |-> examples, collins |-> collins]

\* Vec<Vec<String>> to Vec<(String, String)>: pairs shorter than 2 are
\* dropped (update.rs 381-387 and 405-413).
RECURSIVE ExamplePairs(_)
ExamplePairs(list) ==
    IF list = << >> THEN << >>
    ELSE IF Len(Head(list)) >= 2
         THEN <<<<Head(list)[1], Head(list)[2]>>>> \o ExamplePairs(Tail(list))
         ELSE ExamplePairs(Tail(list))

\* update.rs 379-388: the categories of `eg` in the order the HashMap
\* yields them.
RECURSIVE FlatExamples(_, _)
FlatExamples(egs, order) ==
    IF order = << >> THEN << >>
    ELSE ExamplePairs(egs[Head(order)]) \o FlatExamples(egs, Tail(order))

CollinsItems_KeepAll(items) ==
    [i \in DOMAIN items |->
        [additional  |-> items[i].additional,
         major_trans |-> items[i].major_trans,
         examples    |-> IF items[i].examples # None
                         THEN ExamplePairs(items[i].examples[1]) ELSE << >>]]

\* update.rs 398-420: the Collins items that have content.
RECURSIVE CollinsItems(_)
CollinsItems(items) ==
    IF items = << >> THEN << >>
    ELSE LET item == Head(items)
             collins_item ==
                 [additional  |-> item.additional,
                  major_trans |-> item.major_trans,
                  examples    |-> IF item.examples # None
                                  THEN ExamplePairs(item.examples[1]) ELSE << >>]
         IN  IF collins_item.major_trans # None \/ collins_item.examples # << >>
             THEN <<collins_item>> \o CollinsItems(Tail(items))
             ELSE CollinsItems(Tail(items))

Pronounce_PrimaryOnly(result, pron) ==
    LET us == IF "美" \in DOMAIN pron THEN Some(pron["美"]) ELSE None
        uk == IF "英" \in DOMAIN pron THEN Some(pron["英"]) ELSE None
    IN  [result EXCEPT !.pronunciation_us = us, !.pronunciation_uk = uk,
                       !.pronunciation = IF us # None THEN us ELSE uk]

\* update.rs 350-372: the two pronunciation slots.
Pronounce(result, pron) ==
    LET us == IF "美" \in DOMAIN pron THEN Some(pron["美"])
              ELSE IF "us" \in DOMAIN pron THEN Some(pron["us"])
              ELSE None
        uk == IF "英" \in DOMAIN pron THEN Some(pron["英"])
              ELSE IF "uk" \in DOMAIN pron THEN Some(pron["uk"])
              ELSE None
        r1 == IF us # None
              THEN [result EXCEPT !.pronunciation_us = us, !.pronunciation = us]
              ELSE result
    IN  IF uk # None
        THEN [r1 EXCEPT !.pronunciation_uk = uk,
                        !.pronunciation = IF @ = None THEN uk ELSE @]
        ELSE r1

convert_legacy_KeepSource(legacy, order) ==
    [QueryResultNew(UnwrapOr(legacy.keyword, "unknown"), FALSE) EXCEPT !.found = TRUE]

\* convert_legacy; order is the iteration order of legacy.examples.
convert_legacy(legacy, order) ==
    LET keyword == UnwrapOr(legacy.keyword, "unknown")
        r0 == [QueryResultNew(keyword, FALSE) EXCEPT !.found = TRUE]
        r1 == IF legacy.pronounce # None THEN Pronounce(r0, legacy.pronounce[1]) ELSE r0
        r2 == IF legacy.paraphrase # None
              THEN [r1 EXCEPT !.translations = legacy.paraphrase[1]] ELSE r1
        r3 == IF legacy.examples # None
              THEN [r2 EXCEPT !.examples = @ \o FlatExamples(legacy.examples[1], order)]
              ELSE r2
        r4 == IF legacy.collins # None
              THEN LET collins == legacy.collins[1]
                       c1 == IF collins.rank # None
                             THEN [r3 EXCEPT !.collins_rank = collins.rank] ELSE r3
                   IN  IF collins.items # None
                       THEN [c1 EXCEPT !.collins_items = @ \o CollinsItems(collins.items[1])]
                       ELSE c1
              ELSE r3
    IN  [r4 EXCEPT !.source = OfflineDb]

\* ---------------------------------------------------------------- migrate

\* const BATCH_SIZE
BATCH_SIZE == 100

\* The tables migrate_data goes through, in order.
Tables == <<"en", "ch">>

\* The `detail` blob of a legacy row: JSON text, zlib-compressed or plain.
\* The text is either a LegacyResult object or something serde_json rejects.
Detail(enc, text) == [enc |-> enc, text |-> text]

LegacyJson(legacy) == [j |-> "legacy", v |-> legacy]

Garbage == [j |-> "garbage"]

\* ZlibDecoder::read_to_end
ZlibDecode(detail) == IF detail.enc = "zlib" THEN Ok(detail.text) ELSE Err("Io")

\* update.rs 275-282: the decompressed bytes, or the raw bytes.
FinalBytes(detail) ==
    IF ZlibDecode(detail).ok THEN ZlibDecode(detail).val ELSE detail.text

\* serde_json::from_slice::<LegacyResult>
ParseLegacy(text) == IF text.j = "legacy" THEN Ok(text.v) ELSE Err("Json")

\* A table of the source database: absent, present but failing when its
\* rows are read, or present with rows [query, detail].
Table(exists, readable, rows) == [exists |-> exists, readable |-> readable, rows |-> rows]

NoTable == Table(FALSE, FALSE, << >>)

LegacyCat ==
    Legacy(Some("cat"), Some([l \in {"美"} |-> "kaet"]), Some(<<"n. mao">>),
           Some([c \in {"basic"} |-> <<<<"a cat", "yi zhi mao">>, <<"alone">>>>]),
           None)

LegacyDog ==
    Legacy(None, Some([l \in {"us", "uk"} |-> l \o ":dog"]), None, None,
           Some([rank  |-> Some("CET4"),
                 items |-> Some(<<[additional  |-> Some("N-COUNT"),
                                   major_trans |-> Some("gou"),
                                   examples    |-> Some(<<<<"a dog", "yi zhi gou">>>>)],
                                  [additional  |-> Some("N"),
                                   major_trans |-> None,
                                   examples    |-> None]>>)]))

\* The databases an extracted archive may hold.
SourceDbs ==
    {[en |-> Table(TRUE, TRUE, <<[query |-> "cat", detail |-> Detail("zlib", LegacyJson(LegacyCat))],
                                 [query |-> "dog", detail |-> Detail("plain", Garbage)]>>),
      ch |-> NoTable],
     [en |-> NoTable,
      ch |-> Table(TRUE, TRUE, <<[query |-> "dog", detail |-> Detail("plain", LegacyJson(LegacyDog))]>>)],
     [en |-> Table(TRUE, FALSE, << >>),
      ch |-> Table(TRUE, TRUE, <<[query |-> "cat", detail |-> Detail("zlib", Garbage)]>>)]}

\* All orders in which a HashMap with these keys may be iterated.
Orders(keys) ==
    {o \in [1 .. Cardinality(keys) -> keys] : \A k \in keys : \E i \in DOMAIN o : o[i] = k}

ExampleOrders(legacy) ==
    IF legacy.examples = None THEN {<< >>} ELSE Orders(DOMAIN legacy.examples[1])

\* migrate_data is called on the extracted database.
MigrateBegin(src) ==
    /\ ~MigRunning
    /\ mig' = [IdleMig EXCEPT !.pc = "read", !.src = Some(src), !.ti = 1]
    /\ task' = [t \in Tasks |-> IF task[t].pc = "done" THEN IdleTask ELSE task[t]]
    /\ UNCHANGED <<cache, store, config, now, schema, call, conn, lock, history, dir>>

\* `continue` / the end of the body of `for table in tables`.
NextTable(m) ==
    IF m.ti = Len(Tables)
    THEN [m EXCEPT !.pc = "done", !.ret = Some(Ok(None)),
                   !.rows = << >>, !.i = 0, !.batch = << >>, !.pend = << >>]
    ELSE [m EXCEPT !.pc = "read", !.ti = @ + 1, !.rows = << >>, !.i = 0,
                   !.batch = << >>, !.pend = << >>,
                   !.count = 0, !.error_count = 0]

OnMissingTable_Fail(m) ==
    [m EXCEPT !.pc = "done", !.ret = Some(Err("Sqlite"))]

\* update.rs 218-220 and 253-256: the table is not in the source database;
\* the read returns no rows and the loop over the tables continues.
OnMissingTable(m) == NextTable(m)

\* update.rs 199-256: the blocking read of one table.
MigrateReadTable ==
    /\ mig.pc = "read"
    /\ LET tb == mig.src[1][Tables[mig.ti]]
       IN  IF ~tb.exists THEN mig' = OnMissingTable(mig)
           ELSE IF ~tb.readable
                THEN mig' = [mig EXCEPT !.pc = "done", !.ret = Some(Err("Sqlite"))]
           ELSE IF tb.rows = << >> THEN mig' = NextTable(mig)
           ELSE mig' = [mig EXCEPT !.pc = "loop", !.rows = tb.rows, !.i = 1,
                                   !.count = 0, !.error_count = 0, !.batch = << >>]
    /\ UNCHANGED <<cache, store, config, now, task, schema, call, conn, lock, history, dir>>

\* One call of batch_insert_cache by migrate_data, as `sent` records it.
Flush(m, rows, res) == [table |-> Tables[m.ti], rows |-> rows, res |-> res]

ShouldFlush_Never(batch) == FALSE

\* update.rs 290: if batch.len() >= BATCH_SIZE
ShouldFlush(batch) == Len(batch) >= BATCH_SIZE

OnParseError_Abort(m) ==
    [m EXCEPT !.pc = "done", !.ret = Some(Err("Json"))]

\* update.rs 305-307: the row does not parse.
OnParseError(m) == [m EXCEPT !.error_count = @ + 1]

CacheAfterBatch_Fill(c, items) ==
    [q \in DOMAIN c |->
        IF \E i \in DOMAIN items : items[i].query = q
        THEN Some(items[CHOOSE i \in DOMAIN items : items[i].query = q].result)
        ELSE c[q]]

\* update.rs 194-197, 291, 323: migrate_data is given the connection, not
\* the AppState; a batch goes to batch_insert_cache and the memory cache is
\* as it was.
CacheAfterBatch(c, items) == c

\* update.rs 274-319: one turn of the loop over the rows.
MigrateRow(fault) ==
    /\ mig.pc = "loop"
    /\ LET row    == mig.rows[mig.i]
           parsed == ParseLegacy(FinalBytes(row.detail))
           after  == [mig EXCEPT !.i = @ + 1,
                                 !.pc = IF mig.i = Len(mig.rows) THEN "final" ELSE "loop"]
       IN  IF ~parsed.ok
           THEN /\ mig' = OnParseError(after)
                /\ store' = store
                /\ cache' = cache
           ELSE \E order \in ExampleOrders(parsed.val) :
                   LET batch == Append(mig.batch,
                                       [query  |-> row.query,
                                        result |-> convert_legacy(parsed.val, order)])
                       pend  == Append(mig.pend, mig.i)
                   IN  IF ShouldFlush(batch)
                       THEN LET w == batch_insert_cache_impl(store, batch, now, fault)
                                m == [after EXCEPT !.batch = << >>, !.pend = << >>,
                                                   !.sent = Append(@, Flush(mig, pend, w.res))]
                            IN  /\ store' = w.db
                                /\ cache' = CacheAfterBatch(cache, batch)
                                /\ mig' = IF w.res.ok
                                          THEN [m EXCEPT !.count = @ + w.res.val]
                                          ELSE [m EXCEPT !.error_count = @ + BATCH_SIZE]
                       ELSE /\ mig' = [after EXCEPT !.batch = batch, !.pend = pend]
                            /\ store' = store
                            /\ cache' = cache
    /\ UNCHANGED <<config, now, task, schema, call, conn, lock, history, dir>>

\* update.rs 321-339: the remaining batch and the table's summary; `final`
\* is what the call for the remaining batch returned, if there was one.
MigrateFinal(fault) ==
    /\ mig.pc = "final"
    /\ LET w == batch_insert_cache_impl(store, mig.batch, now, fault)
           s == [mig EXCEPT !.sent = Append(@, Flush(mig, mig.pend, w.res))]
           m == IF mig.batch = << >> THEN mig
                ELSE IF w.res.ok THEN [s EXCEPT !.count = @ + w.res.val]
                ELSE [s EXCEPT !.error_count = @ + 1]
           line == [table |-> Tables[mig.ti], total |-> Len(mig.rows),
                    count |-> m.count, error_count |-> m.error_count,
                    final |-> IF mig.batch = << >> THEN None ELSE Some(w.res)]
       IN  /\ store' = IF mig.batch = << >> THEN store ELSE w.db
           /\ cache' = CacheAfterBatch(cache, mig.batch)
           /\ mig' = NextTable([m EXCEPT !.report = Append(@, line)])
    /\ UNCHANGED <<config, now, task, schema, call, conn, lock, history, dir>>

\* ---------------------------------------------------------------- data directory

\* A file name, as its parts between the dots: kd.db is <<"kd", "db">>.
KdDb == <<"kd", "db">>

ZipName == <<"kd_data", "zip">>

FileNames ==
    {KdDb, ZipName, <<"kd_data", "db">>, <<"stardict", "db">>,
     <<"", "db">>, <<"kd", "db-wal">>, <<"readme">>}

\* Path::extension: the part after the last dot of the file name; none when
\* the name has no dot, or one dot only, at its beginning.
extension(path) ==
    IF Len(path) < 2 \/ (Len(path) = 2 /\ path[1] = "") THEN None
    ELSE Some(path[Len(path)])

\* A file: `src` is what migrate_data finds when it opens the file as a
\* database, `entries` the files in it when it is a zip archive.
File(src, entries) == [src |-> src, entries |-> entries]

\* A file that is no legacy database: reading a table of it fails.
NotLegacy == [en |-> Table(TRUE, FALSE, << >>), ch |-> Table(TRUE, FALSE, << >>)]

\* kd.db: a database without the tables en and ch.
LiveFile == File([en |-> NoTable, ch |-> NoTable], None)

\* The data directory with kd.db alone.
LiveDir == [n \in FileNames |-> IF n = KdDb THEN Some(LiveFile) ELSE None]

\* The archives the download may deliver, each a set of [name, src]; none
\* has an entry named kd.db.
Archives ==
    {{[name |-> <<"kd_data", "db">>, src |-> s]} : s \in SourceDbs}
    \cup {{[name |-> <<"kd_data", "db">>, src |-> s],
           [name |-> <<"stardict", "db">>, src |-> NotLegacy],
           [name |-> <<"readme">>, src |-> NotLegacy]} : s \in SourceDbs}
    \cup {{[name |-> <<"", "db">>, src |-> NotLegacy],
           [name |-> <<"kd", "db-wal">>, src |-> NotLegacy]}}

\* update.rs 134-171: every entry of the archive is written to the directory.
extract_zip(d, entries) ==
    [n \in FileNames |->
        IF \E e \in entries : e.name = n
        THEN Some(File((CHOOSE e \in entries : e.name = n).src, None))
        ELSE d[n]]

find_db_file_AnyDb(d) ==
    LET found == {n \in FileNames : d[n] # None /\ extension(n) = Some("db")}
    IN  IF found = {} THEN {None} ELSE {Some(n) : n \in found}

\* update.rs 173-189: the first entry of read_dir with extension db whose
\* name is not kd.db.  read_dir lists in no specified order: the set of
\* what the call may return.
find_db_file(d) ==
    LET found == {n \in FileNames :
                     d[n] # None /\ extension(n) = Some("db") /\ n # KdDb}
    IN  IF found = {} THEN {None} ELSE {Some(n) : n \in found}

\* ---------------------------------------------------------------- process

\* Time passes.
Tick ==
    /\ now < MaxClock
    /\ now' = now + 1
    /\ UNCHANGED <<cache, store, config, task, mig, schema, call, conn, lock, history, dir>>

\* The process ends and kd is run again (main: init_database, AppState::new):
\* the memory cache starts empty; the config file is as it was.
Restart ==
    /\ cache' = EmptyCache
    /\ task' = [t \in Tasks |-> IdleTask]
    /\ mig' = IdleMig
    /\ LET d == init_database(Db(schema, store), "none").db
       IN  schema' = d.schema /\ store' = d.rows
    /\ UNCHANGED <<config, now, call, conn, lock, history, dir>>

\* Blobs that are not what insert_cache wrote: bytes that are no zstd
\* frame, and a zstd frame around JSON that is no QueryResult.
DamagedBlobs == {[frame |-> "none", content |-> JNull], ZstdEncode(JStr("garbage"))}

\* The file kd.db is damaged, or written by another program, outside kd.
DamageRow(q, blob) ==
    /\ store[q] # None
    /\ store' = [store EXCEPT ![q] = Some([@[1] EXCEPT !.data = blob])]
    /\ task' = [t \in Tasks |-> IF task[t].pc = "done" THEN IdleTask ELSE task[t]]
    /\ mig' = IF mig.pc = "done" THEN IdleMig ELSE mig
    /\ UNCHANGED <<cache, config, now, schema, call, conn, lock, history, dir>>

\* No call of query_word or migrate_data is under way.
Quiet == ~MigRunning /\ \A t \in Tasks : ~InFlight(t)

Init ==
    /\ cache = EmptyCache
    /\ store = EmptyStore
    /\ config \in Configs
    /\ now = 0
    /\ task = [t \in Tasks |-> IdleTask]
    /\ mig = IdleMig
    /\ schema = SchemaObjects
    /\ call = NoCalls
    /\ conn = IdleConn
    /\ lock = {}
    /\ history = << >>
    /\ dir = LiveDir

\* kd as main runs it: one command at a time, each run to its end.
Next ==
    \/ \E t \in Tasks, a \in LookupArgs :
          Quiet /\ Begin(t, a.query, a.no_cache, a.is_long_text)
    \/ \E t \in Tasks, f \in ReadFaults : DbRead(t, f)
    \/ \E t \in Tasks, o \in RemoteOutcomes : OnlineQuery(t, o)
    \/ \E t \in Tasks, f \in WriteFaults : DbWrite(t, f)
    \/ \E src \in SourceDbs : Quiet /\ MigrateBegin(src)
    \/ MigrateReadTable
    \/ \E f \in BatchFaults : MigrateRow(f)
    \/ \E f \in BatchFaults : MigrateFinal(f)
    \/ \E q \in Queries, b \in DamagedBlobs : Quiet /\ DamageRow(q, b)
    \/ Tick
    \/ Restart

Spec == Init /\ [][Next]_vars

\* ---------------------------------------------------------------- large tables

\* The largest number of full batches in a table, and the number of rows
\* of a table that ends in a partial batch.
MaxBatches == 2

TailRows == 3

\* A table of n rows with the keys "cat" and "dog" in turn; the rows at the
\* positions in `bad` hold bytes that are no LegacyResult.
BigRows(n, bad) ==
    [i \in 1 .. n |->
        [query  |-> IF i % 2 = 1 THEN "cat" ELSE "dog",
         detail |-> IF i \in bad THEN Detail("plain", Garbage)
                    ELSE Detail("zlib", LegacyJson(IF i % 2 = 1 THEN LegacyCat
                                                   ELSE LegacyDog))]]

\* Extracted databases whose tables are longer than one batch: en with a
\* whole number of batches and ch with one batch, a tail and a bad row; and
\* en shorter than a batch with ch absent.
BigDbs ==
    {[en |-> Table(TRUE, TRUE, BigRows(MaxBatches * BATCH_SIZE, {})),
      ch |-> Table(TRUE, TRUE, BigRows(BATCH_SIZE + TailRows + 1, {2}))],
     [en |-> Table(TRUE, TRUE, BigRows(TailRows, {})),
      ch |-> NoTable]}

\* kd update on a fresh kd.db, after init_database.
MigStart ==
    /\ cache = EmptyCache
    /\ store = EmptyStore
    /\ config = [api_id |-> Some("id"), api_key |-> Some("key")]
    /\ now = 0
    /\ task = [t \in Tasks |-> IdleTask]
    /\ mig = IdleMig
    /\ schema = SchemaObjects
    /\ call = NoCalls
    /\ conn = IdleConn
    /\ lock = {}
    /\ history = << >>
    /\ dir = LiveDir

\* One run of migrate_data over a large database.
MigNext ==
    \/ \E src \in BigDbs : mig.pc = "idle" /\ MigrateBegin(src)
    \/ MigrateReadTable
    \/ \E f \in BatchFaults : MigrateRow(f)
    \/ \E f \in BatchFaults : MigrateFinal(f)

SpecMig == MigStart /\ [][MigNext]_vars

\* ---------------------------------------------------------------- conversion

\* The longest list of Collins items in a legacy record.
MaxItems == 2

PronLabels == {"美", "us", "英", "uk"}

\* The `pron` maps: any of the four labels, each with one of two values.
PronMaps == UNION {[D -> {"a", "b"}] : D \in SUBSET PronLabels}

\* Collins items with and without a translation, and with no examples, one
\* example that is too short, or a short one followed by a long one.
LegacyItems ==
    [additional : {Some("N")}, major_trans : {None, Some("gou")},
     examples   : {None, Some(<<<<"alone">>>>),
                   Some(<<<<"alone">>, <<"a dog", "yi zhi gou", "x">>>>)}]

\* The legacy records convert_legacy is applied to: every `pron` map with
\* and without keyword and paraphrase, and every list of Collins items.
Legacies ==
    {Legacy(k, p, para, None, None) :
        k \in {None, Some("cat")},
        p \in {None} \cup {Some(m) : m \in PronMaps},
        para \in {None, Some(<<"n. mao">>)}}
    \cup {Legacy(Some("dog"), None, None, LegacyCat.examples,
                 Some([rank |-> rank, items |-> items])) :
             rank \in {None, Some("CET4")},
             items \in {None} \cup {Some(l) : l \in UNION {[1 .. n -> LegacyItems] :
                                                          n \in 0 .. MaxItems}}}

\* let new_result = convert_legacy(legacy);
Convert(legacy, order) ==
    /\ call' = [NoCalls EXCEPT !["migrate"] =
                    [op |-> "convert", legacy |-> legacy, order |-> order,
                     result |-> convert_legacy(legacy, order)]]
    /\ UNCHANGED <<cache, store, config, now, task, mig, schema, conn, lock, history, dir>>

ConvertNext == \E legacy \in Legacies : \E order \in ExampleOrders(legacy) : Convert(legacy, order)

\* convert_legacy applied to one parsed row after another.
SpecConvert == MigStart /\ [][ConvertNext]_vars

\* ---------------------------------------------------------------- frequency alert

\* Duration::from_secs(60) and the threshold of check_frequency_alert.
FREQ_WINDOW == 60

FREQ_LIMIT == 30

\* The last instant of the monotonic clock.
MaxInstant == 120

Retain_All(h, t) == h

\* main.rs 219: history.retain(|&time| now.duration_since(time) < 60 s)
Retain(h, t) == SelectSeq(h, LAMBDA time : t - time < FREQ_WINDOW)

\* main.rs 203-231; `now` is Instant::now().  The call is recorded with
\* whether it printed the warning.
check_frequency_alert ==
    /\ LET kept == Retain(history, now)
       IN  /\ history' = IF Len(kept) >= FREQ_LIMIT THEN kept ELSE Append(kept, now)
           /\ call' = [NoCalls EXCEPT !["lookup"] =
                          [op |-> "check", warned |-> Len(kept) >= FREQ_LIMIT,
                           before |-> history]]
    /\ UNCHANGED <<cache, store, config, now, task, mig, schema, conn, lock, dir>>

\* Time passes between two checks.
FreqWait(d) ==
    /\ now + d <= MaxInstant
    /\ now' = now + d
    /\ call' = NoCalls
    /\ UNCHANGED <<cache, store, config, task, mig, schema, conn, lock, history, dir>>

\* check_frequency_alert called again and again on one QUERY_HISTORY.
FreqNext ==
    \/ check_frequency_alert
    \/ \E d \in {FREQ_WINDOW - 1, FREQ_WINDOW} : FreqWait(d)

SpecFreq == MigStart /\ [][FreqNext]_vars

\* ---------------------------------------------------------------- shared state

\* Two callers of query_word on one AppState.
Callers == {1, 2}

\* query.rs 43: let config = state.config.read().await;
ConfigRead(t) ==
    /\ task[t].pc = "online"
    /\ t \notin lock
    /\ lock' = lock \cup {t}
    /\ UNCHANGED <<cache, store, config, now, task, mig, schema, call, conn, history, dir>>

\* update_dict as a holder of the read guard, next to the callers 1, 2.
Updater == 0

\* update.rs 64-66: update_dict takes the read guard and reads the path.
UpdateBegin ==
    /\ ~MigRunning
    /\ \A t \in DOMAIN task : ~InFlight(t)
    /\ mig' = [IdleMig EXCEPT !.pc = "config"]
    /\ lock' = lock \cup {Updater}
    /\ task' = [t \in DOMAIN task |-> IdleTask]
    /\ UNCHANGED <<cache, store, config, now, schema, call, conn, history, dir>>

\* update.rs 68: drop(config_guard);
UpdateDrop ==
    /\ mig.pc = "config"
    /\ mig' = [mig EXCEPT !.pc = "fetch"]
    /\ lock' = DropGuard(lock, Updater)
    /\ UNCHANGED <<cache, store, config, now, task, schema, call, conn, history, dir>>

\* update.rs 70-97: the archive is downloaded and extracted, the database
\* in it is found and migrate_data is called on it.
UpdateFetch(src) ==
    /\ mig.pc = "fetch"
    /\ mig' = [mig EXCEPT !.pc = "read", !.src = Some(src), !.ti = 1]
    /\ UNCHANGED <<cache, store, config, now, task, schema, call, conn, lock, history, dir>>

SharedStart ==
    /\ cache = EmptyCache
    /\ store = EmptyStore
    /\ config = [api_id |-> Some("id"), api_key |-> Some("key")]
    /\ now = 0
    /\ task = [t \in Callers |-> IdleTask]
    /\ mig = IdleMig
    /\ schema = SchemaObjects
    /\ call = NoCalls
    /\ conn = IdleConn
    /\ lock = {}
    /\ history = << >>
    /\ dir = LiveDir

\* Calls of query_word that overlap at their awaits, on a store that does
\* not fail; update_dict runs when no call is under way.
SharedNext ==
    \/ \E t \in Callers : ~MigRunning /\ Begin(t, "cat", FALSE, FALSE)
    \/ \E t \in Callers : DbRead(t, "none")
    \/ \E t \in Callers : ConfigRead(t)
    \/ \E t \in Callers, o \in RemoteOutcomes : t \in lock /\ OnlineQuery(t, o)
    \/ \E t \in Callers : DbWrite(t, "none")
    \/ UpdateBegin
    \/ UpdateDrop
    \/ \E src \in SourceDbs : UpdateFetch(src)
    \/ MigrateReadTable
    \/ \E f \in BatchFaults : MigrateRow(f)
    \/ \E f \in BatchFaults : MigrateFinal(f)

SpecShared == SharedStart /\ [][SharedNext]_vars

\* ---------------------------------------------------------------- store API

\* query.rs 55: result.cached_at = Some(Utc::now().timestamp())
Stamped(result, t) == [result EXCEPT !.cached_at = Some(t)]

\* The records the callers of the Database trait hand over: what query_word
\* writes through, what migrate_data converts, and records of the other
\* QuerySource variants.
StoreRecords ==
    {Stamped(YoudaoResult("cat", b), 0) : b \in {r \in Responses : YoudaoResult("cat", r).found}}
    \cup {convert_legacy(LegacyCat, <<"basic">>), convert_legacy(LegacyDog, << >>)}
    \cup {[convert_legacy(LegacyDog, << >>) EXCEPT !.source = LocalCache],
          [Stamped(YoudaoResult("dog", Response(Some(<<"gou">>), None, None, "0")), 1)
              EXCEPT !.source = Online("Bing")]}

\* One (query, result) item of a batch.
Item(query, result) == [query |-> query, result |-> result]

\* The batches handed to batch_insert_cache: one or two items, with distinct
\* keys or with the same key twice.
Batches ==
    {<<Item("cat", convert_legacy(LegacyCat, <<"basic">>))>>,
     <<Item("cat", convert_legacy(LegacyCat, <<"basic">>)),
       Item("dog", convert_legacy(LegacyDog, << >>))>>,
     <<Item("dog", convert_legacy(LegacyDog, << >>)),
       Item("cat", Stamped(YoudaoResult("cat", Response(Some(<<"n. mao">>), None, None, "0")), 0))>>,
     <<Item("cat", convert_legacy(LegacyCat, <<"basic">>)),
       Item("cat", Stamped(YoudaoResult("cat", Response(Some(<<"n. mao">>), None, None, "0")), 0))>>}

\* The call that client c has just made, and no other.
OnlyCall(c, rec) == [NoCalls EXCEPT ![c] = rec]

\* main.rs 513: SELECT COUNT(*) FROM cache
Count(db) == Cardinality({q \in Queries : db[q] # None})

\* init_database on the file as it is.
StoreInit(fault) ==
    /\ LET d == init_database(Db(schema, store), fault)
       IN  /\ schema' = d.db.schema
           /\ store' = d.db.rows
           /\ call' = OnlyCall("lookup", [op |-> "init", fault |-> fault,
                                       res |-> d.res, before |-> store])
    /\ UNCHANGED <<cache, config, now, task, mig, conn, lock, history, dir>>

\* Database::insert_cache
StorePut(query, result, fault) ==
    /\ "cache" \in schema
    /\ LET w == insert_cache_impl(store, query, result, now, fault)
       IN  /\ store' = w.db
           /\ call' = OnlyCall("lookup",
                        [op |-> "put", query |-> query, result |-> result,
                         res |-> w.res, before |-> store])
    /\ UNCHANGED <<cache, config, now, task, mig, schema, conn, lock, history, dir>>

\* Database::batch_insert_cache
StorePutBatch(items, fault) ==
    /\ "cache" \in schema
    /\ LET w == batch_insert_cache_impl(store, items, now, fault)
       IN  /\ store' = w.db
           /\ call' = OnlyCall("migrate",
                        [op |-> "batch", items |-> items, fault |-> fault,
                         res |-> w.res, before |-> store])
    /\ UNCHANGED <<cache, config, now, task, mig, schema, conn, lock, history, dir>>

\* Database::query_cache
StoreGet(query, fault) ==
    /\ "cache" \in schema
    /\ call' = OnlyCall("lookup",
                 [op |-> "get", query |-> query, fault |-> fault,
                  res |-> query_cache_impl(store, query, fault), before |-> store])
    /\ UNCHANGED <<cache, store, config, now, task, mig, schema, conn, lock, history, dir>>

\* The file kd.db is damaged, or written by another program, outside kd.
StoreDamage(q, blob) ==
    /\ store[q] # None
    /\ store' = [store EXCEPT ![q] = Some([@[1] EXCEPT !.data = blob])]
    /\ call' = NoCalls
    /\ UNCHANGED <<cache, config, now, task, mig, schema, conn, lock, history, dir>>

\* Time passes between two calls.
StoreTick ==
    /\ now < MaxClock
    /\ now' = now + 1
    /\ call' = NoCalls
    /\ UNCHANGED <<cache, store, config, task, mig, schema, conn, lock, history, dir>>

\* kd.db as Connection::open creates it, before init_database.
StoreStart ==
    /\ cache = EmptyCache
    /\ store = EmptyStore
    /\ config = [api_id |-> Some("id"), api_key |-> Some("key")]
    /\ now = 0
    /\ task = [t \in Tasks |-> IdleTask]
    /\ mig = IdleMig
    /\ schema = {}
    /\ call = NoCalls
    /\ conn = IdleConn
    /\ lock = {}
    /\ history = << >>
    /\ dir = LiveDir

\* The Database trait driven directly, one call at a time.
StoreNext ==
    \/ \E f \in ReadFaults : StoreInit(f)
    \/ \E q \in Queries, r \in StoreRecords, f \in WriteFaults : StorePut(q, r, f)
    \/ \E items \in Batches, f \in BatchFaults : StorePutBatch(items, f)
    \/ \E q \in Queries, f \in ReadFaults : StoreGet(q, f)
    \/ \E q \in Queries, b \in DamagedBlobs : StoreDamage(q, b)
    \/ StoreTick

SpecStore == StoreStart /\ [][StoreNext]_vars

\* ---------------------------------------------------------------- connection

\* tokio_rusqlite: Connection::call sends the closure to the connection's
\* thread and awaits the reply; the thread runs the closures it receives one
\* after the other, each to its end.  `inbox` holds the closures sent and
\* not yet taken, `running` the closures taken and not yet finished.

\* The closure of insert_cache_impl (db.rs 146-159) with what it captured.
InsertMsg(c, query, result, t) ==
    [from |-> c, op |-> "insert", query |-> query,
     data |-> ZstdEncode(ToJson(result)), t |-> t]

\* The closure of query_cache_impl (db.rs 98-123).
QueryMsg(c, query) == [from |-> c, op |-> "query", query |-> query]

\* The closure of batch_insert_cache_impl (db.rs 189-206) with the prepared
\* items it captured.
BatchMsg(c, prepared, t) ==
    [from |-> c, op |-> "batch", prepared |-> prepared, t |-> t]

\* A closure the thread has taken: `pos` is the statement it is at, `count`
\* and `failed` the executes that succeeded and failed so far, `snapshot`
\* the table when its transaction began.
Job(msg) ==
    [msg |-> msg, pos |-> 0, count |-> 0, failed |-> {}, snapshot |-> EmptyStore]

\* A client inside db.call(..).await, and one whose call has returned.
Waiting(op) == [op |-> op, pc |-> "waiting"]

Replied(op, res) == [op |-> op, pc |-> "done", res |-> res]

\* The client is not inside a call.
CanSend(c) == IF call[c].op = "none" THEN TRUE ELSE call[c].pc = "done"

Post(msg) == [conn EXCEPT !.inbox = Append(@, msg)]

\* insert_cache_impl up to db.call: encode, read the clock, send.
SendInsert(c, query, result, fault) ==
    /\ CanSend(c)
    /\ IF fault = "encode"
       THEN /\ call' = [call EXCEPT ![c] = Replied("insert", Err("Json"))]
            /\ conn' = conn
       ELSE /\ call' = [call EXCEPT ![c] = Waiting("insert")]
            /\ conn' = Post(InsertMsg(c, query, result, now))
    /\ UNCHANGED <<cache, store, config, now, task, mig, schema, lock, history, dir>>

\* query_cache_impl up to db.call.
SendQuery(c, query) ==
    /\ CanSend(c)
    /\ call' = [call EXCEPT ![c] = Waiting("query")]
    /\ conn' = Post(QueryMsg(c, query))
    /\ UNCHANGED <<cache, store, config, now, task, mig, schema, lock, history, dir>>

\* batch_insert_cache_impl up to db.call: prepare the items that encode,
\* return Ok(0) when none is left, else send.
SendBatch(c, items, enc) ==
    /\ CanSend(c)
    /\ LET encoded  == [i \in DOMAIN items |->
                           [query |-> items[i].query,
                            data  |-> ZstdEncode(ToJson(items[i].result))]]
           prepared == Keep(encoded, enc, 1)
       IN  IF prepared = << >>
           THEN /\ call' = [call EXCEPT ![c] = Replied("batch", Ok(0))]
                /\ conn' = conn
           ELSE /\ call' = [call EXCEPT ![c] = Waiting("batch")]
                /\ conn' = Post(BatchMsg(c, prepared, now))
    /\ UNCHANGED <<cache, store, config, now, task, mig, schema, lock, history, dir>>

CanReceive_Always(c) == TRUE

\* The thread takes the next closure when the one before has returned.
CanReceive(c) == c.running = << >>

\* The thread's loop: receive a closure.
ConnReceive ==
    /\ conn.inbox # << >>
    /\ CanReceive(conn)
    /\ conn' = [inbox   |-> Tail(conn.inbox),
                running |-> Append(conn.running, Job(Head(conn.inbox)))]
    /\ UNCHANGED <<cache, store, config, now, task, mig, schema, call, lock, history, dir>>

\* running without its k-th closure.
Finished(running, k) ==
    SubSeq(running, 1, k - 1) \o SubSeq(running, k + 1, Len(running))

\* The closure returns res to the client that sent it.
Reply(k, res) ==
    /\ conn' = [conn EXCEPT !.running = Finished(@, k)]
    /\ call' = [call EXCEPT ![conn.running[k].msg.from] = Replied(@.op, res)]

\* The thread runs the next statement of the closure it has taken.
ConnExec(k, fault) ==
    /\ k \in DOMAIN conn.running
    /\ LET job == conn.running[k]
           msg == job.msg
       IN  CASE msg.op = "insert" ->
                  IF fault = "io"
                  THEN store' = store /\ Reply(k, Err("Database"))
                  ELSE /\ store' = [store EXCEPT ![msg.query] =
                                       Some(Row(msg.data, msg.t, msg.t))]
                       /\ Reply(k, Ok(None))
              [] msg.op = "query" ->
                  store' = store /\ Reply(k, query_cache_impl(store, msg.query, fault))
              [] msg.op = "batch" /\ job.pos = 0 ->
                  \* conn.transaction() and tx.prepare(..)
                  /\ store' = store
                  /\ IF fault = "io" THEN Reply(k, Err("Database"))
                     ELSE /\ conn' = [conn EXCEPT !.running[k] =
                                         [job EXCEPT !.pos = 1, !.snapshot = store]]
                          /\ call' = call
              [] msg.op = "batch" /\ job.pos \in 1 .. Len(msg.prepared) ->
                  \* stmt.execute(..).is_ok()
                  LET item == msg.prepared[job.pos]
                  IN  /\ call' = call
                      /\ IF fault = "io"
                         THEN /\ store' = store
                              /\ conn' = [conn EXCEPT !.running[k] =
                                            [job EXCEPT !.pos = @ + 1,
                                                        !.failed = @ \cup {job.pos}]]
                         ELSE /\ store' = [store EXCEPT ![item.query] =
                                              Some(Row(item.data, msg.t, msg.t))]
                              /\ conn' = [conn EXCEPT !.running[k] =
                                            [job EXCEPT !.pos = @ + 1, !.count = @ + 1]]
              [] msg.op = "batch" /\ job.pos > Len(msg.prepared) ->
                  \* stmt.finalize(), tx.commit(); the transaction rolls back
                  \* when it is dropped uncommitted
                  IF fault = "io"
                  THEN store' = job.snapshot /\ Reply(k, Err("Database"))
                  ELSE store' = store /\ Reply(k, Ok(job.count))
    /\ UNCHANGED <<cache, config, now, task, mig, schema, lock, history, dir>>

\* The process with its Connection open and the table created.
ConnStart ==
    /\ cache = EmptyCache
    /\ store = EmptyStore
    /\ config = [api_id |-> Some("id"), api_key |-> Some("key")]
    /\ now = 0
    /\ task = [t \in Tasks |-> IdleTask]
    /\ mig = IdleMig
    /\ schema = SchemaObjects
    /\ call = NoCalls
    /\ conn = IdleConn
    /\ lock = {}
    /\ history = << >>
    /\ dir = LiveDir

\* The record a lookup writes through.
WriteThrough ==
    Stamped(YoudaoResult("cat", Response(Some(<<"n. mao">>), None, None, "0")), 0)

\* Lookups and a migration sharing the Connection.
ConnNext ==
    \/ \E q \in Queries, f \in WriteFaults \ {"io"} :
          SendInsert("lookup", q, WriteThrough, f)
    \/ \E q \in Queries : SendQuery("lookup", q)
    \/ \E items \in Batches, enc \in {{}, {1}} : SendBatch("migrate", items, enc)
    \/ ConnReceive
    \/ \E k \in DOMAIN conn.running, f \in ReadFaults : ConnExec(k, f)

SpecConn == ConnStart /\ [][ConnNext]_vars

\* ---------------------------------------------------------------- interrupted update

\* migrate_data up to the await of db.call: the batch is handed to the
\* connection's thread; `last` tells the call for the remaining batch from
\* a call in the loop.
Submit(m, batch, pend, last) ==
    /\ conn' = Post(BatchMsg("migrate",
                             [i \in DOMAIN batch |->
                                 [query |-> batch[i].query,
                                  data  |-> ZstdEncode(ToJson(batch[i].result))]],
                             now))
    /\ call' = [call EXCEPT !["migrate"] = Waiting("batch")]
    /\ mig' = [m EXCEPT !.pc = "await", !.batch = << >>, !.pend = << >>,
                        !.base = store,
                        !.inflight = Some([items |-> batch, rows |-> pend, last |-> last])]

\* update.rs 274-291: one turn of the loop over the rows, up to the await
\* of batch_insert_cache when the batch is full.
MigrateTurn ==
    /\ mig.pc = "loop"
    /\ LET row    == mig.rows[mig.i]
           parsed == ParseLegacy(FinalBytes(row.detail))
           after  == [mig EXCEPT !.i = @ + 1,
                                 !.pc = IF mig.i = Len(mig.rows) THEN "final" ELSE "loop"]
       IN  IF ~parsed.ok
           THEN mig' = OnParseError(after) /\ UNCHANGED <<conn, call>>
           ELSE \E order \in ExampleOrders(parsed.val) :
                   LET batch == Append(mig.batch,
                                       [query  |-> row.query,
                                        result |-> convert_legacy(parsed.val, order)])
                       pend  == Append(mig.pend, mig.i)
                   IN  IF ShouldFlush(batch)
                       THEN Submit(after, batch, pend, FALSE)
                       ELSE /\ mig' = [after EXCEPT !.batch = batch, !.pend = pend]
                            /\ UNCHANGED <<conn, call>>
    /\ UNCHANGED <<cache, store, config, now, task, schema, lock, history, dir>>

\* update.rs 321-323: after the loop, up to the await of batch_insert_cache
\* for the remaining batch; the summary at once when nothing remains.
MigrateLast ==
    /\ mig.pc = "final"
    /\ IF mig.batch = << >>
       THEN /\ mig' = NextTable([mig EXCEPT !.report = Append(@,
                         [table |-> Tables[mig.ti], total |-> Len(mig.rows),
                          count |-> mig.count, error_count |-> mig.error_count,
                          final |-> None])])
            /\ UNCHANGED <<conn, call>>
       ELSE Submit(mig, mig.batch, mig.pend, TRUE)
    /\ UNCHANGED <<cache, store, config, now, task, schema, lock, history, dir>>

\* update.rs 291-303 and 323-339: batch_insert_cache(..).await returns.
MigrateResume ==
    /\ mig.pc = "await"
    /\ call["migrate"].op = "batch"
    /\ call["migrate"].pc = "done"
    /\ LET res == call["migrate"].res
           fl  == mig.inflight[1]
           s   == [mig EXCEPT !.sent = Append(@, Flush(mig, fl.rows, res)),
                              !.inflight = None, !.base = store]
           m   == IF res.ok THEN [s EXCEPT !.count = @ + res.val]
                  ELSE [s EXCEPT !.error_count = @ + (IF fl.last THEN 1 ELSE BATCH_SIZE)]
       IN  mig' = IF fl.last
                  THEN NextTable([m EXCEPT !.report = Append(@,
                          [table |-> Tables[m.ti], total |-> Len(m.rows),
                           count |-> m.count, error_count |-> m.error_count,
                           final |-> Some(res)])])
                  ELSE [m EXCEPT !.pc = IF m.i > Len(m.rows) THEN "final" ELSE "loop"]
    /\ call' = NoCalls
    /\ UNCHANGED <<cache, store, config, now, task, schema, conn, lock, history, dir>>

AtAwait_Anywhere(m) == m.pc \in {"read", "loop", "final", "await"}

\* main.rs 52-60: select! takes the shutdown branch only when the future of
\* update_dict is pending, that is at one of its awaits: the blocking read
\* of a table (update.rs 205-251) or batch_insert_cache (update.rs 291, 323).
AtAwait(m) == m.pc \in {"read", "await"}

Killed_NoTransaction(c, db) == db

\* db.rs 189-206: the table in kd.db when the process ends; the writes of a
\* transaction that was not committed are not in it.
Killed(c, db) ==
    IF c.running # << >> /\ c.running[1].msg.op = "batch" /\ c.running[1].pos >= 1
    THEN c.running[1].snapshot
    ELSE db

\* main.rs 22-29 and 56-59: the interrupt is received, main returns from the
\* shutdown branch of select! and the process ends, the future of
\* update_dict and the connection's thread with it.
Shutdown ==
    /\ AtAwait(mig)
    /\ mig' = [mig EXCEPT !.pc = "stopped"]
    /\ store' = Killed(conn, store)
    /\ conn' = IdleConn
    /\ call' = NoCalls
    /\ UNCHANGED <<cache, config, now, task, schema, lock, history, dir>>

\* kd update on a large database, with every statement of the connection's
\* thread a step of its own, and an interrupt at any time.
ShutNext ==
    \/ \E src \in BigDbs : mig.pc = "idle" /\ MigrateBegin(src)
    \/ MigrateReadTable
    \/ MigrateTurn
    \/ MigrateLast
    \/ MigrateResume
    \/ ConnReceive
    \/ \E k \in DOMAIN conn.running : ConnExec(k, "none")
    \/ Shutdown

SpecShut == MigStart /\ [][ShutNext]_vars

\* ---------------------------------------------------------------- update

\* update.rs 70-87: the archive is downloaded unless kd_data.zip is there,
\* and extracted into the data directory.  fault is the step that fails:
\* "send" (no file is created), "stream" (the file is left incomplete),
\* "extract", or "none".
UpdateExtract(archive, fault) ==
    /\ mig.pc = "fetch"
    /\ LET fails(res, d) ==
              /\ mig' = [mig EXCEPT !.pc = "done", !.ret = Some(res)]
              /\ dir' = d
           loaded == IF dir[ZipName] # None THEN dir
                     ELSE [dir EXCEPT ![ZipName] = Some(File(NotLegacy, Some(archive)))]
       IN  IF dir[ZipName] = None /\ fault = "send" THEN fails(Err("Http"), dir)
           ELSE IF dir[ZipName] = None /\ fault = "stream"
                THEN fails(Err("Http"), [dir EXCEPT ![ZipName] = Some(File(NotLegacy, None))])
           ELSE IF fault = "extract" \/ loaded[ZipName][1].entries = None
                THEN fails(Err("Io"), loaded)
           ELSE /\ mig' = [mig EXCEPT !.pc = "find"]
                /\ dir' = extract_zip(loaded, loaded[ZipName][1].entries[1])
    /\ UNCHANGED <<cache, store, config, now, task, schema, call, conn, lock, history>>

\* update.rs 89-97: find_db_file(data_dir), and migrate_data on what it
\* returns; without a file update_dict returns an error.
UpdateFind(found) ==
    /\ mig.pc = "find"
    /\ found \in find_db_file(dir)
    /\ mig' = IF found = None
              THEN [mig EXCEPT !.pc = "done", !.ret = Some(Err("Io"))]
              ELSE [mig EXCEPT !.pc = "read", !.ti = 1,
                               !.src = Some(dir[found[1]][1].src),
                               !.source_db_path = found]
    /\ UNCHANGED <<cache, store, config, now, task, schema, call, conn, lock, history, dir>>

\* update.rs 97-110: after migrate_data(..).await?, kd_data.zip is removed
\* if it exists, then the file that was migrated; fault is the remove_file
\* that fails ("zip", "source") or "none".
UpdateCleanup(fault) ==
    /\ mig.pc = "done" /\ mig.source_db_path # None
    /\ LET nozip  == [dir EXCEPT ![ZipName] = None]
           noboth == [nozip EXCEPT ![mig.source_db_path[1]] = None]
           out    == IF ~mig.ret[1].ok THEN [res |-> mig.ret[1], d |-> dir]
                     ELSE IF dir[ZipName] # None /\ fault = "zip"
                          THEN [res |-> Err("Io"), d |-> dir]
                     ELSE IF fault = "source" THEN [res |-> Err("Io"), d |-> nozip]
                     ELSE [res |-> Ok(None), d |-> noboth]
       IN  /\ dir' = out.d
           /\ mig' = [mig EXCEPT !.ret = Some(out.res), !.source_db_path = None]
           /\ call' = [NoCalls EXCEPT !["migrate"] =
                          [op |-> "update", res |-> out.res,
                           source_db_path |-> mig.source_db_path[1], before |-> dir]]
    /\ UNCHANGED <<cache, store, config, now, task, schema, conn, lock, history>>

\* Runs of `kd --update` and lookups of "cat", one after the other.
UpdNext ==
    \/ \E t \in Tasks : Quiet /\ Begin(t, "cat", FALSE, FALSE)
    \/ \E t \in Tasks : DbRead(t, "none")
    \/ \E t \in Tasks, o \in RemoteOutcomes : OnlineQuery(t, o)
    \/ \E t \in Tasks : DbWrite(t, "none")
    \/ UpdateBegin
    \/ UpdateDrop
    \/ \E a \in Archives, f \in {"none", "send", "stream", "extract"} : UpdateExtract(a, f)
    \/ \E n \in {None} \cup {Some(n) : n \in FileNames} : UpdateFind(n)
    \/ MigrateReadTable
    \/ \E f \in BatchFaults : MigrateRow(f)
    \/ \E f \in BatchFaults : MigrateFinal(f)
    \/ \E f \in {"none", "zip", "source"} : UpdateCleanup(f)

SpecUpdate == MigStart /\ [][UpdNext]_vars

\* ---------------------------------------------------------------- signature input

\* A query as the sequence of its characters, each the number of bytes of
\* its UTF-8 encoding.
MaxAscii == 11

MaxWide == 7

TRUNCATE_OVER == 20

TRUNCATE_KEEP == 10

\* a one-byte characters, c characters of w bytes, b one-byte characters.
Chars(a, c, w, b) ==
    [i \in 1 .. a + c + b |-> IF i > a /\ i <= a + c THEN w ELSE 1]

SignQueries ==
    {Chars(a, c, w, b) : a \in 0 .. MaxAscii, c \in 0 .. MaxWide,
                         w \in {2, 3, 4}, b \in 0 .. MaxAscii}

\* The byte offset at which the characters after the first n of q begin.
RECURSIVE Offset(_, _)
Offset(q, n) == IF n = 0 THEN 0 ELSE Offset(q, n - 1) + q[n]

\* str::len: the length in bytes.
StrLen(q) == Offset(q, Len(q))

\* str::is_char_boundary
is_char_boundary(q, index) == \E n \in 0 .. Len(q) : Offset(q, n) = index

\* &q[from..to]: the characters of the bytes from .. to - 1; the index
\* panics (None) when an end is not on a character boundary.
Slice(q, from, to) ==
    IF is_char_boundary(q, from) /\ is_char_boundary(q, to)
    THEN Some([i \in 1 .. Cardinality({n \in 1 .. Len(q) :
                                          Offset(q, n - 1) >= from /\ Offset(q, n) <= to}) |->
                  q[i + Cardinality({n \in 1 .. Len(q) : Offset(q, n - 1) < from})]])
    ELSE None

\* client.rs 95-104: the input of the signature, <<q>> or <<head, len, tail>>;
\* Err("panic") when a slice panics.
SignInput(q) ==
    IF StrLen(q) <= TRUNCATE_OVER THEN Ok(<<q>>)
    ELSE LET head == Slice(q, 0, TRUNCATE_KEEP)
             tail == Slice(q, StrLen(q) - TRUNCATE_KEEP, StrLen(q))
         IN  IF head = None \/ tail = None THEN Err("panic")
             ELSE Ok(<<head[1], StrLen(q), tail[1]>>)

\* query_youdao_impl builds the signature input for the query of the call.
BuildSignInput(t) ==
    /\ task[t].pc = "online"
    /\ call' = [NoCalls EXCEPT !["lookup"] =
                   [op |-> "sign", query |-> task[t].query, res |-> SignInput(task[t].query)]]
    /\ task' = [task EXCEPT ![t] = [@ EXCEPT !.pc = "signed"]]
    /\ UNCHANGED <<cache, store, config, now, mig, schema, conn, lock, history, dir>>

\* A call of query_word with no_cache has reached query_youdao_impl, with
\* credentials in the configuration.
SignStart ==
    /\ cache = EmptyCache
    /\ store = EmptyStore
    /\ config = [api_id |-> Some("id"), api_key |-> Some("key")]
    /\ now = 0
    /\ task \in [Tasks -> {[IdleTask EXCEPT !.pc = "online", !.query = q, !.no_cache = TRUE] :
                              q \in SignQueries}]
    /\ mig = IdleMig
    /\ schema = SchemaObjects
    /\ call = NoCalls
    /\ conn = IdleConn
    /\ lock = {}
    /\ history = << >>
    /\ dir = LiveDir

SignNext == \E t \in Tasks : BuildSignInput(t)

SpecSign == SignStart /\ [][SignNext]_vars

\* ---------------------------------------------------------------- properties

Done(t) == task[t].pc = "done"

Ret(t) == task[t].ret[1]

Last(s) == s[Len(s)]

\* The content fields of a QueryResult: everything but is_long_text, source
\* and cached_at.
Content(r) ==
    <<r.query, r.found, r.pronunciation, r.pronunciation_us, r.pronunciation_uk,
      r.translations, r.examples, r.collins_items, r.collins_rank>>

\* This step is a step of query_word by caller t.
CallStep(t) == task'[t] # task[t] /\ task'[t].pc # "idle"

\* This step is the next call of t after a finished one, for the same query
\* and with no_cache = false.
NextLookup(t) ==
    /\ Done(t) /\ CallStep(t)
    /\ task'[t].query = task[t].query
    /\ ~task'[t].no_cache

\* The call that this step begins is answered from the memory cache with
\* the content r.
AnsweredFromCache(t, r) ==
    /\ task'[t].pc = "done"
    /\ task'[t].ret[1].ok
    /\ task'[t].ret[1].val.source = LocalCache
    /\ Content(task'[t].ret[1].val) = Content(r)

\* The finished call of t had no_cache = false, reached the provider and
\* returned Ok.
RemoteLookupOk(t) ==
    /\ ~task[t].no_cache
    /\ task[t].remote # None
    /\ Ret(t).ok

IsRead(e) == e \in {"cache.get", "db.query", "remote"}

IsRemote(e) == e = "remote"

IsInsert(e) == e \in {"cache.insert", "db.insert"}

TierOrder == <<"cache.get", "db.query", "remote">>

\* C1, as stated: after a lookup with skipCache = false that reached the
\* provider and returned a record, the next lookup of the same query with
\* skipCache = false is answered with origin ProcessCache and the same
\* content fields.
C1_AsStated ==
    [][\A t \in Tasks :
          NextLookup(t) /\ RemoteLookupOk(t) => AnsweredFromCache(t, Ret(t).val)]_vars

\* C1, amended: the same, for a first lookup whose record has found = true.
C1_FoundThenCached ==
    [][\A t \in Tasks :
          NextLookup(t) /\ RemoteLookupOk(t) /\ Ret(t).val.found
             => AnsweredFromCache(t, Ret(t).val)]_vars

\* A second lookup has been answered from the cache after the first one
\* fetched the record from the provider.
C1_Witness ==
    \E t \in Tasks :
        /\ Done(t) /\ ~task[t].no_cache
        /\ task[t].prev.served = "remote" /\ task[t].prev.query = task[t].query
        /\ Ret(t).ok /\ Ret(t).val.source = LocalCache /\ Ret(t).val.found

\* C2: no step of a lookup with skipCache = true changes the memory cache or
\* the store, and when it returns it has made exactly one access, to the
\* provider, and both tiers are as they were when it began.
C2_NoCacheBypassesTiers ==
    [][\A t \in Tasks :
          CallStep(t) /\ task'[t].no_cache
             => /\ cache' = cache
                /\ store' = store
                /\ task'[t].pc = "done"
                      => /\ task'[t].trace = <<"remote">>
                         /\ cache' = task'[t].cache0
                         /\ store' = task'[t].store0]_vars

\* A lookup with skipCache = true has returned a found record from the
\* provider while the cache holds another record for the query.
C2_Witness ==
    \E t \in Tasks :
        /\ Done(t) /\ task[t].no_cache
        /\ Ret(t).ok /\ Ret(t).val.found /\ IsOnline(Ret(t).val.source)
        /\ cache[task[t].query] # None
        /\ Content(cache[task[t].query][1]) # Content(Ret(t).val)
        /\ store[task[t].query] # None

\* C3: every record the store holds has found = true, and a lookup that
\* went to the provider and got found = false leaves no row for its query.
C3_StoreHoldsFoundOnly ==
    /\ \A q \in Queries :
          store[q] # None /\ DecodeRow(store[q][1]).ok
             => DecodeRow(store[q][1]).val.found
    /\ \A t \in Tasks :
          Done(t) /\ ~task[t].no_cache /\ task[t].remote # None
                  /\ Ret(t).ok /\ ~Ret(t).val.found
             => store[task[t].query] = None

\* A lookup has returned found = false from the provider, with
\* skipCache = false, while the store holds rows written by lookups and by
\* the migration.
C3_Witness ==
    \E t \in Tasks :
        /\ Done(t) /\ ~task[t].no_cache /\ task[t].remote # None
        /\ Ret(t).ok /\ ~Ret(t).val.found
        /\ \E q \in Queries :
              store[q] # None /\ DecodeRow(store[q][1]).ok

\* C4, as stated: a lookup whose store read fails goes on to the provider;
\* it never ends on the store read with an error.
C4_ReadFailureIsAMiss ==
    \A t \in Tasks :
        Done(t) /\ Last(task[t].trace) = "db.query" => Ret(t).ok

\* C5: a lookup with skipCache = false reads the tiers in the order cache,
\* store, provider; it reads the store only when the cache has no entry,
\* calls the provider only when neither tier has one, and on a cache hit
\* returns at once, with no other access.
C5_TierOrder ==
    [][\A t \in Tasks :
          CallStep(t) /\ ~task'[t].no_cache
             => LET q   == task'[t].query
                    old == IF InFlight(t) THEN SelectSeq(task[t].trace, IsRead) ELSE << >>
                    new == SelectSeq(task'[t].trace, IsRead)
                IN  /\ new = SubSeq(TierOrder, 1, Len(new))
                    /\ Len(new) <= Len(old) + 1
                    /\ Len(new) > Len(old) /\ Last(new) = "db.query" => cache[q] = None
                    /\ Len(new) > Len(old) /\ Last(new) = "remote"
                          => cache[q] = None /\ store[q] = None
                    /\ ~InFlight(t) /\ cache[q] # None
                          => /\ task'[t].pc = "done"
                             /\ task'[t].trace = <<"cache.get">>]_vars

\* A lookup has gone through all three tiers, and written back.
C5_Witness ==
    \E t \in Tasks :
        /\ Done(t) /\ ~task[t].no_cache /\ Ret(t).ok
        /\ task[t].trace = <<"cache.get", "db.query", "remote", "cache.insert", "db.insert">>

\* C6: a lookup answered by the store returns the stored record, with its
\* origin kept when that is Online and set to OfflineDb otherwise.
C6_StoreHitOrigin ==
    [][\A t \in Tasks :
          CallStep(t) /\ task[t].pc = "db_read"
                      /\ task'[t].pc = "done" /\ task'[t].ret[1].ok
             => LET stored == DecodeRow(store[task[t].query][1]).val
                IN  task'[t].ret[1].val =
                       IF stored.source.kind = "Online" THEN stored
                       ELSE [stored EXCEPT !.source = OfflineDb]]_vars

\* A lookup has been answered by the store with a record that an earlier
\* process fetched from the provider.
C6_Witness ==
    \E t \in Tasks :
        /\ Done(t) /\ Ret(t).ok
        /\ task[t].trace = <<"cache.get", "db.query", "cache.insert">>
        /\ Ret(t).val.source = Online("Youdao")
        /\ Ret(t).val.cached_at # None

\* C7: a lookup answered by the store leaves the stored record, as stored,
\* in the memory cache, and the next lookup of the query is answered from
\* the cache, with origin LocalCache and no store read.
C7_StoreHitFillsCache ==
    [][\A t \in Tasks :
          /\ CallStep(t) /\ task[t].pc = "db_read"
                         /\ task'[t].pc = "done" /\ task'[t].ret[1].ok
                => cache'[task[t].query] = Some(DecodeRow(store[task[t].query][1]).val)
          /\ NextLookup(t) /\ Served(task[t]) = "store"
                => /\ task'[t].pc = "done"
                   /\ task'[t].trace = <<"cache.get">>
                   /\ task'[t].ret[1] =
                         Ok([DecodeRow(store[task[t].query][1]).val
                                EXCEPT !.source = LocalCache])]_vars

\* A lookup has been answered from the cache after the one before it was
\* answered by the store.
C7_Witness ==
    \E t \in Tasks :
        /\ Done(t) /\ ~task[t].no_cache
        /\ task[t].prev.served = "store" /\ task[t].prev.query = task[t].query
        /\ task[t].trace = <<"cache.get">>
        /\ Ret(t).ok /\ Ret(t).val.source = LocalCache

\* C8: a lookup whose write-through did not reach the store returns an
\* error.
C8_WriteFailureIsAnError ==
    \A t \in Tasks :
        Done(t) /\ Last(task[t].trace) = "db.insert" /\ store[task[t].query] = None
           => ~Ret(t).ok

\* A lookup has returned an error after the provider answered found = true
\* and the insert into the store failed.
C8_Witness ==
    \E t \in Tasks :
        /\ Done(t) /\ Last(task[t].trace) = "db.insert"
        /\ task[t].remote # None /\ task[t].remote[1].ok /\ task[t].remote[1].val.found
        /\ store[task[t].query] = None
        /\ ~Ret(t).ok

\* C9: when the provider call fails the lookup returns at once with that
\* error, having called the provider once, and both tiers are as they were
\* when the lookup began.
C9_ProviderErrorPropagates ==
    [][\A t \in Tasks :
          CallStep(t) /\ task'[t].remote # None /\ ~task'[t].remote[1].ok
             => /\ task'[t].pc = "done"
                /\ task'[t].ret = task'[t].remote
                /\ Len(SelectSeq(task'[t].trace, IsRemote)) = 1
                /\ SelectSeq(task'[t].trace, IsInsert) = << >>
                /\ cache' = cache /\ cache' = task'[t].cache0
                /\ store' = store /\ store' = task'[t].store0]_vars

\* A lookup that missed both tiers has returned the provider's network
\* error, while the tiers hold records for another query.
C9_Witness ==
    \E t \in Tasks :
        /\ Done(t) /\ ~task[t].no_cache
        /\ task[t].remote = Some(Err("Http")) /\ Ret(t) = Err("Http")
        /\ cache # EmptyCache /\ store # EmptyStore

\* C10: from empty tiers, when the provider answers found = true and the
\* first lookup(q, false, false) returns a record, that record has origin
\* Online, the second lookup(q, false, false) returns origin LocalCache, and
\* the store then holds for q a record with the provider's translations.
C10_EndToEnd ==
    [][\A t \in Tasks :
          (/\ NextLookup(t) /\ RemoteLookupOk(t)
           /\ task[t].cache0 = EmptyCache /\ task[t].store0 = EmptyStore
           /\ task[t].remote[1].ok /\ task[t].remote[1].val.found
           /\ ~task[t].is_long_text /\ ~task'[t].is_long_text)
             => /\ Ret(t).val.source = Online("Youdao")
                /\ task'[t].pc = "done"
                /\ task'[t].ret[1].ok
                /\ task'[t].ret[1].val.source = LocalCache
                /\ LET got == query_cache_impl(store', task[t].query, "none")
                   IN  /\ got.ok /\ got.val # None
                       /\ got.val[1].translations = task[t].remote[1].val.translations]_vars

\* The second of two lookups of "cat" from empty tiers has returned, and
\* the store holds the translations the provider gave.
C10_Witness ==
    \E t \in Tasks :
        /\ Done(t) /\ task[t].query = "cat" /\ ~task[t].no_cache
        /\ task[t].prev = [query |-> "cat", served |-> "remote", fresh |-> TRUE]
        /\ Ret(t).ok /\ Ret(t).val.source = LocalCache
        /\ query_cache_impl(store, "cat", "none") = Ok(Some([Ret(t).val EXCEPT !.source = Online("Youdao")]))
        /\ Ret(t).val.translations = <<"n. mao">>

\* C11, as stated: whenever the memory cache holds a record for q and the
\* store holds a row for q that decodes, the two records have the same
\* content fields.
C11_CacheCoherent ==
    \A q \in Queries :
        cache[q] # None /\ store[q] # None /\ DecodeRow(store[q][1]).ok
           => Content(cache[q][1]) = Content(DecodeRow(store[q][1]).val)

\* This step is a call of op by client c on the Database API.
ApiStep(c, op) == call' # call /\ call'[c].op = op

\* The positions of a batch call whose encoding failed.
Unencodable(c) == c.fault.enc \cap (1 .. Len(c.items))

\* The row that a write of result at time t leaves.
Written(result, t) == Some(Row(ZstdEncode(ToJson(result)), t, t))

\* C12: batch_insert_cache over N items with distinct keys, of which M < N
\* fail to encode and nothing else fails, returns Ok(N - M), writes the row
\* of each of the other N - M items and leaves every other row as it was.
C12_BatchSkipsUnencodable ==
    [][ApiStep("migrate", "batch") =>
          LET c   == call'["migrate"]
              N   == Len(c.items)
              bad == Unencodable(c)
              M   == Cardinality(bad)
          IN  (/\ M < N /\ c.fault.exec = {} /\ c.fault.tx = "ok"
               /\ Cardinality({c.items[i].query : i \in 1 .. N}) = N)
                 => /\ c.res = Ok(N - M)
                    /\ \A i \in (1 .. N) \ bad :
                          store'[c.items[i].query] = Written(c.items[i].result, now)
                    /\ \A q \in Queries :
                          (\A i \in (1 .. N) \ bad : c.items[i].query # q)
                             => store'[q] = store[q]]_vars

\* A batch of two items whose first item failed to encode has returned
\* Ok(1); the row of the second item is there and the first key has no row.
C12_Witness ==
    LET c == call["migrate"]
    IN  /\ c.op = "batch" /\ Len(c.items) = 2
        /\ c.fault = [enc |-> {1}, exec |-> {}, tx |-> "ok"]
        /\ c.res = Ok(1)
        /\ store[c.items[1].query] = None
        /\ store[c.items[2].query] = Written(c.items[2].result, now)

\* C13: when the transaction of a batch_insert_cache call fails to commit,
\* the call reports no success (it returns an error, not a count) and the
\* store is as it was before the call.
C13_FailedCommitWritesNothing ==
    [][ApiStep("migrate", "batch") =>
          LET c == call'["migrate"]
          IN  c.fault.tx = "commit" /\ Unencodable(c) # 1 .. Len(c.items)
                 => /\ ~c.res.ok
                    /\ store' = store
                    /\ \A q \in Queries :
                          query_cache_impl(store', q, "none")
                             = query_cache_impl(store, q, "none")]_vars

\* A batch of two items, both encoded and executed, has failed at commit:
\* it returned an error and the store is still empty.
C13_Witness ==
    LET c == call["migrate"]
    IN  /\ c.op = "batch" /\ Len(c.items) = 2
        /\ c.fault = [enc |-> {}, exec |-> {}, tx |-> "commit"]
        /\ c.res = Err("Database")
        /\ c.before = EmptyStore
        /\ store = EmptyStore

\* A batch closure has its transaction open.
InTx(c) ==
    \E k \in DOMAIN c.running :
        c.running[k].msg.op = "batch" /\ c.running[k].pos >= 1

\* This step returns a call of client c.
Returns(c) ==
    /\ call[c].op # "none" /\ call[c].pc = "waiting"
    /\ call'[c].pc = "done"

\* C14: while the transaction of a batch is open no insert is applied and
\* no query is answered, and when the batch returns the table is the table
\* at the start of its transaction with exactly its own executed rows
\* written (its reply being their number), or that table unchanged when it
\* returns an error.
C14_BatchIsAtomic ==
    [][/\ InTx(conn) => ~Returns("lookup")
       /\ \A k \in DOMAIN conn.running :
             LET job  == conn.running[k]
                 done == ExecuteAll([db |-> job.snapshot, count |-> 0],
                                    job.msg.prepared, job.msg.t, job.failed, 1)
             IN  job.msg.op = "batch" /\ job.pos >= 1 /\ Returns(job.msg.from)
                    => IF call'[job.msg.from].res.ok
                       THEN /\ store' = done.db
                            /\ call'[job.msg.from].res = Ok(done.count)
                       ELSE store' = job.snapshot]_vars

\* The transaction of a batch of two has written its first row, and an
\* insert and nothing else is waiting in the inbox.
C14_Witness ==
    /\ InTx(conn)
    /\ conn.running[1].pos = 2 /\ conn.running[1].count = 1
    /\ Len(conn.running[1].msg.prepared) = 2
    /\ Len(conn.inbox) = 1 /\ conn.inbox[1].op = "insert"
    /\ conn.inbox[1].query = conn.running[1].msg.prepared[2].query
    /\ call["lookup"] = Waiting("insert")

\* C15: the table has one row per query (PRIMARY KEY): an insert_cache that
\* succeeds leaves for its key the record it was given, whatever row was
\* there, changes no other row, and changes COUNT(*) only when the key had
\* no row; a batch leaves for each key it executed the record of the last
\* item it executed for that key;
\* a failed insert and a query_cache change nothing.  So query_cache(q)
\* returns the record of the last successful write of q.
C15_PutIsUpsert ==
    [][/\ ApiStep("lookup", "put") =>
             LET c == call'["lookup"]
             IN  IF c.res.ok
                 THEN /\ query_cache_impl(store', c.query, "none") = Ok(Some(c.result))
                      /\ Count(store') = Count(store) + (IF store[c.query] = None THEN 1 ELSE 0)
                      /\ \A q \in Queries \ {c.query} : store'[q] = store[q]
                 ELSE store' = store
       /\ ApiStep("migrate", "batch") =>
             LET c  == call'["migrate"]
                 ok == IF c.res.ok /\ c.fault.enc = {}
                       THEN (1 .. Len(c.items)) \ c.fault.exec ELSE {}
             IN  /\ \A i \in ok :
                       (\A n \in ok : c.items[n].query = c.items[i].query => n <= i)
                          => query_cache_impl(store', c.items[i].query, "none")
                                = Ok(Some(c.items[i].result))
                 /\ c.fault.enc = {} =>
                       \A q \in Queries :
                          (\A i \in ok : c.items[i].query # q) => store'[q] = store[q]
       /\ ApiStep("lookup", "get") => store' = store]_vars

\* An insert_cache has replaced the row of its key, which held another
\* record, and the table has as many rows as before.
C15_Witness ==
    LET c == call["lookup"]
    IN  /\ c.op = "put" /\ c.res.ok
        /\ c.before[c.query] # None
        /\ DecodeRow(c.before[c.query][1]).ok
        /\ DecodeRow(c.before[c.query][1]).val # c.result
        /\ query_cache_impl(store, c.query, "none") = Ok(Some(c.result))
        /\ Count(store) = Count(c.before) /\ Count(store) = 2

\* C16: every row has created_at = updated_at; the row of a successful
\* insert_cache, and each row a batch executed, has both equal to the time
\* of the call, whether or not the key had a row.
C16_WriteStampsBothTimes ==
    [][/\ \A q \in Queries :
             store'[q] # None => store'[q][1].created_at = store'[q][1].updated_at
       /\ ApiStep("lookup", "put") /\ call'["lookup"].res.ok =>
             LET row == store'[call'["lookup"].query][1]
             IN  row.created_at = now /\ row.updated_at = now
       /\ ApiStep("migrate", "batch") =>
             \A q \in Queries :
                store'[q] # store[q] =>
                   store'[q][1].created_at = now /\ store'[q][1].updated_at = now]_vars

\* An insert_cache at time 1 has replaced a row written at time 0, and the
\* row now carries time 1 twice.
C16_Witness ==
    LET c == call["lookup"]
    IN  /\ c.op = "put" /\ c.res.ok /\ now = 1
        /\ c.before[c.query] # None
        /\ c.before[c.query][1].created_at = 0
        /\ store[c.query][1].created_at = 1
        /\ store[c.query][1].updated_at = 1

\* C17: a query_cache that SQLite itself does not fail returns Ok(None) when
\* the key has no row, Ok(Some(record)) with the whole decoded record when
\* the row's data is a zstd frame around the JSON of a QueryResult, and
\* Err(Database), with no record, when the data does not decompress or
\* does not parse.
C17_GetDecodesOrFails ==
    [][ApiStep("lookup", "get") /\ call'["lookup"].fault = "none" =>
          LET c == call'["lookup"]
              q == c.query
          IN  IF store[q] = None THEN c.res = Ok(None)
              ELSE LET z == ZstdDecode(store[q][1].data)
                   IN  IF ~z.ok THEN c.res = Err("Database")
                       ELSE IF ~FromJson(z.val).ok THEN c.res = Err("Database")
                       ELSE c.res = Ok(Some(FromJson(z.val).val))]_vars

\* A query_cache of a key whose row holds a zstd frame around JSON that is
\* no QueryResult has returned Err(Database).
C17_Witness ==
    LET c == call["lookup"]
    IN  /\ c.op = "get" /\ c.fault = "none" /\ c.res = Err("Database")
        /\ store[c.query] # None
        /\ ZstdDecode(store[c.query][1].data).ok
        /\ ~FromJson(ZstdDecode(store[c.query][1].data).val).ok

\* C18: a query_cache that follows a successful insert_cache of a found
\* record under the same key returns that record, equal in every field.
C18_CodecRoundTrip ==
    [][ApiStep("lookup", "get") =>
          LET put == call["lookup"]
              get == call'["lookup"]
          IN  (/\ put.op = "put" /\ put.res.ok /\ put.result.found
               /\ get.query = put.query /\ get.fault = "none")
                 => get.res = Ok(Some(put.result))]_vars

\* A query_cache has returned the record just inserted, whose source is
\* Online(Bing) and whose cached_at is set.
C18_Witness ==
    LET c == call["lookup"]
    IN  /\ c.op = "get" /\ c.res.ok /\ c.res.val # None
        /\ c.res.val[1].source = Online("Bing")
        /\ c.res.val[1].cached_at = Some(1)
        /\ c.res.val[1].translations = <<"gou">>
        /\ store[c.query] = Written(c.res.val[1], now)

\* C19: init_database on a file that already has the table and the index,
\* when SQLite does not fail, returns Ok and leaves the schema and every row
\* as they were; an init_database that fails changes no row either.
C19_InitIsIdempotent ==
    [][ApiStep("lookup", "init") =>
          LET c == call'["lookup"]
          IN  /\ schema = SchemaObjects /\ c.fault = "none"
                 => c.res.ok /\ store' = store /\ schema' = schema
              /\ ~c.res.ok => store' = store]_vars

\* init_database has returned Ok on a table that holds two rows, and they
\* are still there.
C19_Witness ==
    LET c == call["lookup"]
    IN  /\ c.op = "init" /\ c.res.ok
        /\ Count(c.before) = 2
        /\ store = c.before
        /\ schema = SchemaObjects

\* The rows of a table that parse as a LegacyResult, and those that do not.
Parseable(rows) == {i \in DOMAIN rows : ParseLegacy(FinalBytes(rows[i].detail)).ok}

Unparseable(rows) == DOMAIN rows \ Parseable(rows)

\* This step is a step of migrate_data.
MigStep == mig' # mig /\ mig'.pc # "idle"

\* C20: a row that does not parse adds one to the table's error count, is
\* left out of the batch and of the store, and the loop goes on to the next
\* row; when the rows are done every row that parses has been converted
\* into the batch, and if the write of that batch returns Ok with all of
\* them, the table's summary counts the rows that parse as inserted and the
\* rows that do not as errors.
C20_BadRowIsCountedAndSkipped ==
    [][/\ mig.pc = "loop" /\ MigStep
             /\ ~ParseLegacy(FinalBytes(mig.rows[mig.i].detail)).ok
          => /\ mig' = [mig EXCEPT !.error_count = @ + 1, !.i = @ + 1,
                                   !.pc = IF mig.i = Len(mig.rows) THEN "final" ELSE "loop"]
             /\ store' = store
       /\ mig.pc = "final" /\ MigStep
          => LET good == Parseable(mig.rows)
                 bad  == Unparseable(mig.rows)
                 line == Last(mig'.report)
             IN  /\ [i \in DOMAIN mig.batch |-> mig.batch[i].query]
                       = [i \in DOMAIN mig.batch |->
                             SelectSeq(mig.rows,
                                LAMBDA r : ParseLegacy(FinalBytes(r.detail)).ok)[i].query]
                 /\ Len(mig.batch) = Cardinality(good)
                 /\ mig.error_count = Cardinality(bad)
                 /\ line.final = Some(Ok(Cardinality(good)))
                       => /\ line.count = Cardinality(good)
                          /\ line.error_count = Cardinality(bad)
                          /\ \A i \in DOMAIN mig.batch :
                                query_cache_impl(store', mig.batch[i].query, "none")
                                   = Ok(Some(mig.batch[i].result))]_vars

\* The table en with the valid row "cat" and the garbage row "dog" has been
\* migrated: one record inserted, one error, and only "cat" is in the store.
C20_Witness ==
    /\ mig.report # << >>
    /\ mig.report[1] = [table |-> "en", total |-> 2, count |-> 1, error_count |-> 1,
                        final |-> Some(Ok(1))]
    /\ store["cat"] # None /\ DecodeRow(store["cat"][1]).ok
    /\ DecodeRow(store["cat"][1]).val.source = OfflineDb
    /\ store["dog"] = None

\* The positions 1 .. n of rows that parse as a LegacyResult.
ParsedUpTo(rows, n) ==
    {i \in 1 .. n : ParseLegacy(FinalBytes(rows[i].detail)).ok}

\* s lists the members of the set of numbers S in increasing order, each once.
Lists(s, S) ==
    /\ \A k \in 1 .. Len(s) - 1 : s[k] < s[k + 1]
    /\ {s[k] : k \in DOMAIN s} = S

\* The row positions carried by the calls in `sent` for `table`, in order.
RECURSIVE SentRows(_, _)
SentRows(sent, table) ==
    IF sent = << >> THEN << >>
    ELSE (IF Head(sent).table = table THEN Head(sent).rows ELSE << >>)
            \o SentRows(Tail(sent), table)

\* C21: the pending batch never holds more than BATCH_SIZE items and no
\* call of batch_insert_cache carries more; every call for a table except
\* that table's last carries exactly BATCH_SIZE items and none is empty; and
\* the rows that parsed so far are, in order and each exactly once, the rows
\* already submitted followed by the rows of the pending batch, so that
\* when a table is done every row that parses has been submitted once.
C21_BatchesOfBatchSize ==
    /\ Len(mig.batch) <= BATCH_SIZE
    /\ Len(mig.pend) = Len(mig.batch)
    /\ \A k \in DOMAIN mig.sent :
          /\ Len(mig.sent[k].rows) \in 1 .. BATCH_SIZE
          /\ (\E j \in DOMAIN mig.sent : j > k /\ mig.sent[j].table = mig.sent[k].table)
                => Len(mig.sent[k].rows) = BATCH_SIZE
    /\ mig.pc \in {"loop", "final"}
          => Lists(SentRows(mig.sent, Tables[mig.ti]) \o mig.pend,
                   ParsedUpTo(mig.rows, IF mig.pc = "final" THEN Len(mig.rows)
                                        ELSE mig.i - 1))
    /\ \A k \in DOMAIN mig.report :
          LET table == mig.report[k].table
              rows  == mig.src[1][table].rows
          IN  Lists(SentRows(mig.sent, table), ParsedUpTo(rows, Len(rows)))

\* The table ch, of one full batch, a tail and a bad row, has been migrated
\* with two calls: one of BATCH_SIZE rows and a last one of TailRows rows.
C21_Witness ==
    /\ mig.pc = "done"
    /\ \E k \in DOMAIN mig.sent :
          /\ k + 1 = Len(mig.sent)
          /\ mig.sent[k].table = "ch" /\ Len(mig.sent[k].rows) = BATCH_SIZE
          /\ mig.sent[k + 1].table = "ch" /\ Len(mig.sent[k + 1].rows) = TailRows
          /\ mig.sent[k].res.ok /\ mig.sent[k + 1].res.ok

\* This step of migrate_data made a call of batch_insert_cache.
FlushStep == MigStep /\ Len(mig'.sent) = Len(mig.sent) + 1

\* The error count of the table being migrated after this step: the one of
\* the table's summary when the step ends the table.
ErrorCountAfter ==
    IF mig.pc = "final" THEN Last(mig'.report).error_count ELSE mig'.error_count

\* C22: when a call of batch_insert_cache made by migrate_data fails, in
\* the loop or for the remaining partial batch, the table's error count
\* grows by the number of items of that batch, and the migration goes on
\* (it does not return an error).
C22_FailedBatchCountsItsItems ==
    [][FlushStep /\ ~Last(mig'.sent).res.ok
          => /\ ErrorCountAfter = mig.error_count + Len(Last(mig'.sent).rows)
             /\ mig'.ret \in {None, Some(Ok(None))}
             /\ mig'.pc \in {"loop", "final", "read", "done"}]_vars

\* C23: when the table migrate_data is about to read is not in the source
\* database, the step is no error, it writes nothing to the store (and no
\* call of batch_insert_cache is ever made for that table), and the
\* migration goes on to the next table, or ends with Ok after the last.
C23_MissingTableIsSkipped ==
    [][/\ (mig.pc = "read" /\ MigStep /\ ~mig.src[1][Tables[mig.ti]].exists)
          => /\ store' = store
             /\ mig'.sent = mig.sent /\ mig'.report = mig.report
             /\ mig.ti < Len(Tables)
                   => mig'.pc = "read" /\ mig'.ti = mig.ti + 1 /\ mig'.ret = None
             /\ mig.ti = Len(Tables)
                   => mig'.pc = "done" /\ mig'.ret = Some(Ok(None))
       /\ MigStep
          => \A k \in DOMAIN mig'.sent : mig'.src[1][mig'.sent[k].table].exists]_vars

\* A source without the table en has been migrated: the run returned Ok,
\* the only summary is the one of ch, and its row "dog" is in the store.
C23_Witness ==
    /\ mig.pc = "done" /\ mig.ret = Some(Ok(None))
    /\ ~mig.src[1]["en"].exists
    /\ Len(mig.report) = 1 /\ mig.report[1].table = "ch" /\ mig.report[1].count = 1
    /\ store["dog"] # None /\ store["cat"] = None

\* Reading this table of the source database fails.
ReadFails(tb) == tb.exists /\ ~tb.readable

\* C24: a finished run of migrate_data has returned an error only if the
\* read of every table failed; every table that can be read and has rows
\* has been processed, whatever happened to the other table.
C24_FailsOnlyIfEveryTableFails ==
    mig.pc = "done"
       => /\ ~mig.ret[1].ok
                => \A i \in DOMAIN Tables : ReadFails(mig.src[1][Tables[i]])
          /\ \A i \in DOMAIN Tables :
                LET tb == mig.src[1][Tables[i]]
                IN  tb.exists /\ tb.readable /\ tb.rows # << >>
                       => \E k \in DOMAIN mig.report : mig.report[k].table = Tables[i]

\* The last call of convert_legacy.
Converted == call["migrate"]

\* The `pron` map with the labels of the other convention and the same values.
Relabel(pron) ==
    [l \in {IF k = "美" THEN "us" ELSE "uk" : k \in DOMAIN pron} |->
        pron[IF l = "us" THEN "美" ELSE "英"]]

\* The value of a slot: its primary label if the map has it, otherwise its
\* alternate label, otherwise nothing.
Slot(pron, primary, alternate) ==
    IF primary \in DOMAIN pron THEN Some(pron[primary])
    ELSE IF alternate \in DOMAIN pron THEN Some(pron[alternate])
    ELSE None

\* C25: a legacy record whose pronunciations are labelled "美" and "英"
\* converts to the same record as the one labelled "us" and "uk" with the
\* same values; each pronunciation slot takes its primary label when the
\* map has it and its alternate label otherwise; and the single
\* pronunciation field is the us slot if it is filled, otherwise the uk slot.
C25_LabelConventionIndependent ==
    Converted.op = "convert"
       => LET legacy == Converted.legacy
              r      == Converted.result
          IN  IF legacy.pronounce = None
              THEN /\ r.pronunciation_us = None /\ r.pronunciation_uk = None
                   /\ r.pronunciation = None
              ELSE LET pron == legacy.pronounce[1]
                       us   == Slot(pron, "美", "us")
                       uk   == Slot(pron, "英", "uk")
                   IN  /\ r.pronunciation_us = us
                       /\ r.pronunciation_uk = uk
                       /\ r.pronunciation = IF us # None THEN us ELSE uk
                       /\ DOMAIN pron \subseteq {"美", "英"}
                             => convert_legacy([legacy EXCEPT !.pronounce = Some(Relabel(pron))],
                                               Converted.order) = r

\* A record with "美" and "英" has been converted, to the same record as
\* its relabelled copy, with the single pronunciation taken from "美".
C25_Witness ==
    /\ Converted.op = "convert"
    /\ Converted.legacy.pronounce = Some([l \in {"美", "英"} |-> IF l = "美" THEN "a" ELSE "b"])
    /\ Converted.result.pronunciation = Some("a")
    /\ Converted.result.pronunciation_uk = Some("b")
    /\ convert_legacy([Converted.legacy EXCEPT !.pronounce = Some([l \in {"us", "uk"} |->
                                                   IF l = "us" THEN "a" ELSE "b"])],
                      Converted.order) = Converted.result

\* The legacy Collins item has a translation or an example of two or more
\* elements.
HasContent(item) ==
    \/ item.major_trans # None
    \/ /\ item.examples # None
       /\ \E k \in DOMAIN item.examples[1] : Len(item.examples[1][k]) >= 2

\* C27: the Collins items of the converted record are the legacy items that
\* have a translation or an example of at least two elements, in the same
\* order; each keeps its fields, and its examples are the first two
\* elements of the legacy examples that have at least two.
C27_CollinsItemsWithContent ==
    (/\ Converted.op = "convert"
     /\ Converted.legacy.collins # None)
       => LET items == IF Converted.legacy.collins[1].items = None THEN << >>
                       ELSE Converted.legacy.collins[1].items[1]
              kept  == SelectSeq(items, HasContent)
              out   == Converted.result.collins_items
          IN  /\ Len(out) = Len(kept)
              /\ \A j \in DOMAIN out :
                    LET long == IF kept[j].examples = None THEN << >>
                                ELSE SelectSeq(kept[j].examples[1], LAMBDA e : Len(e) >= 2)
                    IN  /\ out[j].major_trans = kept[j].major_trans
                        /\ out[j].additional = kept[j].additional
                        /\ out[j].examples = [k \in DOMAIN long |-> <<long[k][1], long[k][2]>>]

\* Two items have been converted: the first, without a translation and
\* with only a short example, is dropped; the second, without a translation
\* and with a short and a long example, is kept with the long one.
C27_Witness ==
    /\ Converted.op = "convert"
    /\ Converted.legacy.collins # None
    /\ Converted.legacy.collins[1].items
          = Some(<<[additional |-> Some("N"), major_trans |-> None,
                    examples |-> Some(<<<<"alone">>>>)],
                   [additional |-> Some("N"), major_trans |-> None,
                    examples |-> Some(<<<<"alone">>, <<"a dog", "yi zhi gou", "x">>>>)]>>)
    /\ Converted.result.collins_items
          = <<[additional |-> Some("N"), major_trans |-> None,
               examples |-> <<<<"a dog", "yi zhi gou">>>>]>>

\* C26: every row a step of migrate_data writes to the store decodes to a
\* record with found = true and source OfflineDb; and a lookup that is
\* answered from the store, where the row of its key holds such a record,
\* returns it with found = true and source OfflineDb, never an online source.
C26_MigratedRecordsAreOffline ==
    [][/\ MigStep
          => \A q \in Queries :
                store'[q] # store[q]
                   => /\ store'[q] # None
                      /\ DecodeRow(store'[q][1]).ok
                      /\ DecodeRow(store'[q][1]).val.found
                      /\ DecodeRow(store'[q][1]).val.source = OfflineDb
       /\ \A t \in Tasks :
             (/\ task[t].pc = "db_read" /\ CallStep(t)
              /\ store[task[t].query] # None
              /\ DecodeRow(store[task[t].query][1]).ok
              /\ DecodeRow(store[task[t].query][1]).val.source = OfflineDb
              /\ Done(t)' /\ Ret(t)'.ok
              /\ task'[t].trace = <<"cache.get", "db.query", "cache.insert">>)
                => /\ Ret(t)'.val.found
                   /\ Ret(t)'.val.source = OfflineDb
                   /\ ~IsOnline(Ret(t)'.val.source)]_vars

\* After a migration wrote "cat", a lookup of "cat" in a new process has
\* been answered from the store with source OfflineDb.
C26_Witness ==
    \E t \in Tasks :
        /\ Done(t) /\ Ret(t).ok
        /\ task[t].query = "cat"
        /\ task[t].trace = <<"cache.get", "db.query", "cache.insert">>
        /\ Ret(t).val.found /\ Ret(t).val.source = OfflineDb
        /\ Ret(t).val.pronunciation = Some("kaet")

\* Both callers have finished a call of query_word(q, no_cache = false)
\* that missed the memory cache and the store and got an answer from the
\* provider.
BothCalled(q) ==
    \A t \in Callers :
        /\ Done(t) /\ task[t].query = q /\ ~task[t].no_cache
        /\ Len(task[t].trace) >= 3
        /\ SubSeq(task[t].trace, 1, 3) = <<"cache.get", "db.query", "remote">>
        /\ task[t].remote[1].ok

\* ... and the answer of each was a found record: the two calls overlapped.
BothRemote(q) ==
    BothCalled(q) /\ \A t \in Callers : task[t].remote[1].val.found

C30_GuardOnlyAroundProvider ==
    /\ [](/\ \A t \in Callers : t \in lock => task[t].pc = "online"
          /\ Updater \in lock => mig.pc = "config")
    /\ [][\A t \in Callers :
             (task'[t] # task[t] /\ task[t].pc = "online")
                => t \in lock /\ t \notin lock']_vars

\* Caller 1 holds the guard, inside the provider call, while caller 2, whose
\* provider call has returned, is at the write-through without the guard.
C30_Witness ==
    /\ 1 \in lock /\ task[1].pc = "online"
    /\ 2 \notin lock /\ task[2].pc = "db_write"
    /\ "remote" \in {task[2].trace[k] : k \in DOMAIN task[2].trace}

\* The table after the whole of `items` was written to `db` in one call.
AllWritten(db, items) == batch_insert_cache_impl(db, items, now, NoBatchFault).db

\* C29: when the update is interrupted, migrate_data is stopped at a batch
\* boundary: no parsed row is waiting in a batch that was not submitted,
\* the table in kd.db is the table as it was at the last boundary or that
\* table with the whole batch in flight written, never with a part of it,
\* and nothing is submitted or running afterwards.
C29_StopsAtBatchBoundary ==
    mig.pc = "stopped"
       => /\ mig.batch = << >> /\ mig.pend = << >>
          /\ IF mig.inflight = None THEN store = mig.base
             ELSE store \in {mig.base, AllWritten(mig.base, mig.inflight[1].items)}
          /\ conn = IdleConn
          /\ \A c \in Clients : call[c].op = "none"

\* The update was interrupted while the first full batch of the loop was
\* in flight: an empty table stays empty although the batch would fill it.
C29_Witness ==
    /\ mig.pc = "stopped"
    /\ mig.inflight # None
    /\ ~mig.inflight[1].last /\ Len(mig.inflight[1].items) = BATCH_SIZE
    /\ mig.base = EmptyStore /\ store = EmptyStore
    /\ AllWritten(mig.base, mig.inflight[1].items) # EmptyStore

\* C31: no step of migrate_data changes the memory cache: it inserts,
\* overwrites and removes no entry, whatever it writes to the store.
C31_MigrationLeavesCache ==
    [][MigStep => cache' = cache]_vars

\* A migration has written "cat" to the store while the memory cache still
\* holds the record that an earlier lookup fetched from the provider.
C31_Witness ==
    /\ mig.pc = "done" /\ mig.ret = Some(Ok(None))
    /\ \E k \in DOMAIN mig.sent : mig.sent[k].res.ok /\ mig.sent[k].res.val = 1
    /\ cache["cat"] # None /\ IsOnline(cache["cat"][1].source)
    /\ store["cat"] # None
    /\ DecodeRow(store["cat"][1]).ok
    /\ DecodeRow(store["cat"][1]).val.source = OfflineDb

\* This step is a call of check_frequency_alert.
CheckStep == call' # call /\ call'["lookup"].op = "check"

\* C32: a check first drops the instants that are FREQ_WINDOW seconds old
\* or older; then, with FREQ_LIMIT or more left, it warns and records
\* nothing, otherwise it appends the current instant.  So the history never
\* holds more than FREQ_LIMIT instants, and after a check every instant in
\* it is younger than FREQ_WINDOW seconds.
C32_FrequencyAlert ==
    /\ [](/\ Len(history) <= FREQ_LIMIT
          /\ call["lookup"].op = "check"
                => \A k \in DOMAIN history : now - history[k] < FREQ_WINDOW)
    /\ [][CheckStep
            => LET young == {k \in DOMAIN history : now - history[k] < FREQ_WINDOW}
                   warn  == Cardinality(young) >= FREQ_LIMIT
               IN  /\ call'["lookup"].warned = warn
                   /\ Len(history') = Cardinality(young) + (IF warn THEN 0 ELSE 1)
                   /\ \A k \in 1 .. Cardinality(young) :
                         \E j \in young :
                            /\ history'[k] = history[j]
                            /\ Cardinality({i \in young : i < j}) = k - 1
                   /\ ~warn => history'[Len(history')] = now]_vars

\* A check found FREQ_LIMIT instants younger than a minute, recorded at two
\* different times, and warned without recording the query.
C32_Witness ==
    /\ call["lookup"].op = "check" /\ call["lookup"].warned
    /\ Len(history) = FREQ_LIMIT
    /\ call["lookup"].before = history
    /\ history[1] # history[FREQ_LIMIT]

\* C33: when no call of query_word is under way, every key that is in the
\* memory cache is in the store, also after calls that returned an error.
C33_CacheWithinStore ==
    (\A t \in Tasks : ~InFlight(t))
       => \A q \in Queries : cache[q] # None => store[q] # None

\* C34: no record kept in the memory cache and no record that decodes from
\* a row of the store has the source LocalCache; and a hit in the store
\* puts the record in the memory cache as the store holds it, whatever
\* source the returned copy is given.
C34_TiersNeverHoldLocalCache ==
    /\ [](\A q \in Queries :
             /\ cache[q] # None => cache[q][1].source # LocalCache
             /\ (store[q] # None /\ DecodeRow(store[q][1]).ok)
                   => DecodeRow(store[q][1]).val.source # LocalCache)
    /\ [][\A t \in Tasks :
             (/\ task[t].pc = "db_read" /\ CallStep(t)
              /\ Done(t)' /\ Ret(t)'.ok
              /\ Last(task'[t].trace) = "cache.insert")
                => cache'[task[t].query] = Some(DecodeRow(store[task[t].query][1]).val)]_vars

\* A lookup of "cat" has been answered from the memory cache with the
\* source LocalCache while the cached record keeps its online source.
C34_Witness ==
    \E t \in Tasks :
        /\ Done(t) /\ Ret(t).ok /\ task[t].query = "cat"
        /\ task[t].trace = <<"cache.get">>
        /\ Ret(t).val.source = LocalCache
        /\ cache["cat"] # None /\ IsOnline(cache["cat"][1].source)

\* C35: the record that decodes from a row of the store has the row's key
\* as its query.
C35_RecordQueryIsRowKey ==
    \A q \in Queries :
        (store[q] # None /\ DecodeRow(store[q][1]).ok)
           => DecodeRow(store[q][1]).val.query = q

\* C36: when a table is done, the rows counted as inserted and the rows
\* counted as errors add up to the rows read from the table.
C36_AccountingIsConservative ==
    \A k \in DOMAIN mig.report :
        mig.report[k].count + mig.report[k].error_count
            = Len(mig.src[1][mig.report[k].table].rows)

\* The positions of the batch of call c whose item was encoded and whose
\* INSERT succeeded: the fault names the INSERTs by their position among the
\* prepared items.
Executed(c) ==
    {i \in 1 .. Len(c.items) :
        /\ i \notin c.fault.enc
        /\ Cardinality({k \in 1 .. i : k \notin c.fault.enc}) \notin c.fault.exec}

\* C37: after a batch_insert_cache that returns Ok, the count returned is
\* the number of items that were encoded and whose INSERT succeeded, a
\* query_cache of a key of such an item returns the record of the last such
\* item with that key, and the row of every other key is as it was.
C37_BatchLastItemWins ==
    [][ApiStep("migrate", "batch") =>
          LET c  == call'["migrate"]
              ok == Executed(c)
          IN  c.res.ok
                 => /\ c.res.val = Cardinality(ok)
                    /\ \A q \in Queries :
                          LET mine == {i \in ok : c.items[i].query = q}
                          IN  IF mine = {} THEN store'[q] = store[q]
                              ELSE \E i \in mine :
                                      /\ \A n \in mine : n <= i
                                      /\ query_cache_impl(store', q, "none")
                                            = Ok(Some(c.items[i].result))]_vars

\* A batch of two different records under one key has returned Ok(2) on an
\* empty table: the table has one row and it holds the second record.
C37_Witness ==
    LET c == call["migrate"]
    IN  /\ c.op = "batch" /\ Len(c.items) = 2
        /\ c.items[1].query = c.items[2].query
        /\ c.items[1].result # c.items[2].result
        /\ c.fault = NoBatchFault
        /\ c.res = Ok(2)
        /\ Count(store) = 1
        /\ query_cache_impl(store, c.items[2].query, "none") = Ok(Some(c.items[2].result))

\* The finished call of t had no_cache = false and the provider answered it
\* with found = false.
Negative(tk) ==
    /\ tk.pc = "done" /\ ~tk.no_cache
    /\ tk.remote # None /\ tk.remote[1].ok /\ ~tk.remote[1].val.found

\* C38: a lookup with skipCache = false that the provider answers with
\* found = false returns that record with cached_at unset, having made no
\* insert, and leaves the memory cache and the store as they were when it
\* began; the next lookup of the same query with skipCache = false, the
\* query's cache entry and row being as that call left them, is not
\* answered from the cache, finds no row and goes on to the provider unless
\* the store read fails.
C38_NoNegativeCaching ==
    [][\A t \in Tasks :
          /\ (CallStep(t) /\ Negative(task'[t]))
                => /\ task'[t].ret[1].ok /\ ~task'[t].ret[1].val.found
                   /\ task'[t].ret[1].val.cached_at = None
                   /\ task'[t].trace = <<"cache.get", "db.query", "remote">>
                   /\ cache' = task'[t].cache0
                   /\ store' = task'[t].store0
          /\ (/\ NextLookup(t) /\ Negative(task[t])
              /\ cache[task[t].query] = task[t].cache0[task[t].query]
              /\ store[task[t].query] = task[t].store0[task[t].query])
                => /\ task'[t].pc = "db_read"
                   /\ store[task[t].query] = None
          /\ (/\ CallStep(t) /\ task[t].pc = "db_read"
              /\ task[t].prev.served = "absent" /\ task[t].prev.query = task[t].query
              /\ store[task[t].query] = None)
                => \/ task'[t].pc = "online"
                   \/ task'[t].pc = "done" /\ ~task'[t].ret[1].ok]_vars

\* After a lookup that the provider answered with found = false, the next
\* lookup of the same query has gone to the provider again, which found it
\* this time, and the record is now in the cache.
C38_Witness ==
    \E t \in Tasks :
        /\ Done(t) /\ ~task[t].no_cache
        /\ task[t].prev.served = "absent" /\ task[t].prev.query = task[t].query
        /\ task[t].remote # None /\ Ret(t).ok /\ Ret(t).val.found
        /\ cache[task[t].query] # None

C40_SignInputNeverFails ==
    LET c == call["lookup"]
    IN  c.op = "sign"
           => /\ c.res.ok
              /\ StrLen(c.query) <= TRUNCATE_OVER => c.res.val = <<c.query>>
              /\ StrLen(c.query) > TRUNCATE_OVER
                    => /\ Len(c.res.val) = 3
                       /\ StrLen(c.res.val[1]) = TRUNCATE_KEEP
                       /\ c.res.val[2] = StrLen(c.query)
                       /\ StrLen(c.res.val[3]) = TRUNCATE_KEEP

====
